---- MODULE Spec2Model ----
(***************************************************************************)
(* Request dispatch and page rendering of web-widget/web-server:           *)
(*   - pathToPathname and sortRoutes (manifest generation),                *)
(*   - selectMiddlewares, the middleware chain and the top-level handler   *)
(*     of ServerContext,                                                   *)
(*   - internalRender.                                                     *)
(* A JavaScript string is a sequence of one-character strings, so that     *)
(* split, join, slice, startsWith and endsWith are computed as the code    *)
(* computes them.                                                          *)
(***************************************************************************)
EXTENDS Integers, Sequences, FiniteSets, TLC

VARIABLES
    \* ---- pathToPathname ----
    pathSegs,     \* the segments the input path was written with
    pathIn,       \* the argument: a relative path, extension stripped
    pathOut,      \* the returned pattern string, Nothing before the call
    \* ---- sortRoutes ----
    sortIn,       \* the list handed to sortRoutes (pathnames)
    sortOut,      \* the list after routes.sort(...), Nothing before the call
    sortTwice,    \* the list after a second sortRoutes, Nothing before it
    \* ---- ServerContext: the tables, built once ----
    routes,       \* #routes: the route table
    middlewares,  \* #middlewares: the middleware table
    pages,        \* #notFound and #error: the not-found and the error page
    \* ---- one entry per request ----
    pc,           \* "idle", "chain" (a thunk is running), "error" (the
                  \* error handler is running), "done"
    url,          \* new URL(req.url): pathname and search
    selected,     \* mws: what selectMiddlewares returned, Nothing before
    resolved,     \* what path matching resolved: the index of the route,
                  \* 0 for the not-found page, Nothing before
    destination,  \* middlewareCtx.destination
    handlers,     \* the queue of thunks next() shifts from
    stack,        \* the thunks that are running, innermost last
    ctxError,     \* the error handed to the error handler, Nothing before
    result,       \* what the hosting layer gets from the top-level handler
    invoked,      \* history: the thunks started so far, in order
    shortCircuit, \* history: middleware handlers that returned a response
                  \* without having called next()
    finalThrew,   \* history: the terminal handler threw or rejected
    caught,       \* history: a middleware handled an error of next()
    escaped,      \* history: the error that left the chain, Nothing if none
    \* ---- internalRender ----
    rOpts,        \* opts: the page (csp), imports; and what the render hook
                  \* and the page's render function do in this call
    rPc,          \* "idle", "hook", "scripts", "template", "done"
    rCsp,         \* csp: Nothing (undefined) or the policy
    rCtx,         \* ctx: the InnerRenderContext of this call
    rOutlet,      \* outlet: Nothing (null) or the render result
    rScripts,     \* moduleScripts: [url, nonce] pairs
    rUuids,       \* the values crypto.randomUUID() has returned so far
    rTemplate,    \* history: the options handed to template, Nothing before
    rResult,      \* Nothing, the returned [html, csp] or the error thrown
    rHooked,      \* history: how often this call has called the render hook
    rPast,        \* history: the calls that have ended, each with its
                  \* context as the call left it and its outcome
    \* ---- fromManifest: one route module and a request to its route ----
    mModule,      \* the module: has a component, and what it exports as
                  \* handler (nothing, a function, a method map)
    mRoute,       \* route.handler after fromManifest, Nothing before
    mPathname,    \* route.pathname after fromManifest, Nothing before
    mReq,         \* the method of the request, Nothing before it arrives
    mCalls,       \* history: the handler functions called, in order
    mGetResp,     \* what the GET handler answered, Nothing if not called
    mResp,        \* the outcome of the request, Nothing before
    mExported,    \* what the module exports as handler now: Nothing, the
                  \* function, or the method map with the methods it has
    \* ---- the state maps of the requests ----
    heap,         \* the state maps created so far: heap[id] is the set of
                  \* writes map id holds, a write being <<request, thunk>>
    mwState,      \* per request: the map middlewareCtx.state refers to, 0
                  \* before there is one
    ctxState,     \* per request: the map ctx.state refers to
    wrote,        \* history, per request: the writes its middlewares made
    seen,         \* history, per request: what every thunk and the error
                  \* handler found in the state map when it was started
    \* ---- the render function of a handler context (genRender) ----
    gResp,        \* Nothing before the call ends; then how it was called
                  \* (dev, the page's status, options) and its outcome
    \* ---- history of the chain of a request ----
    nextCalls,    \* per request: how often next() has been called
    calledNext,   \* per request: the thunks that have called next()
    observed,     \* per request: what every thunk found in
                  \* middlewareCtx.destination when it was started
    written       \* per request: the values assigned to
                  \* middlewareCtx.destination after its creation

pathVars == <<pathSegs, pathIn, pathOut>>
sortVars == <<sortIn, sortOut, sortTwice>>
tableVars == <<routes, middlewares, pages>>
renderVars == <<rOpts, rPc, rCsp, rCtx, rOutlet, rScripts, rUuids, rTemplate,
                rResult, rHooked, rPast>>
manifestVars == <<mModule, mRoute, mPathname, mReq, mCalls, mGetResp, mResp,
                  mExported>>
stateVars == <<heap, mwState, ctxState, wrote, seen>>
histVars == <<nextCalls, calledNext, observed, written>>
reqVars == <<pc, url, selected, resolved, destination, handlers, stack,
             ctxError, result, invoked, shortCircuit, finalThrew, caught,
             escaped>>

\* a value that is not there yet is the empty sequence, a value v that is
\* there is <<v>>
Nothing == <<>>
Some(v) == <<v>>
The(o) == o[1]

-----------------------------------------------------------------------------
(* Strings                                                                 *)

Last(s) == s[Len(s)]
Front(s) == SubSeq(s, 1, Len(s) - 1)

StartsWith(s, p) == Len(s) >= Len(p) /\ SubSeq(s, 1, Len(p)) = p
EndsWith(s, p) == Len(s) >= Len(p) /\ SubSeq(s, Len(s) - Len(p) + 1, Len(s)) = p

\* String.prototype.slice(from, to) with 0-based, non-negative bounds
Slice(s, from, to) == SubSeq(s, from + 1, to)

\* index of the first "/" of s, 0 when there is none
RECURSIVE IndexOfSlash(_, _)
IndexOfSlash(s, i) ==
    IF i > Len(s) THEN 0
    ELSE IF s[i] = "/" THEN i
    ELSE IndexOfSlash(s, i + 1)

\* String.prototype.split("/")
RECURSIVE Split(_)
Split(s) ==
    LET i == IndexOfSlash(s, 1) IN
    IF i = 0 THEN <<s>>
    ELSE <<SubSeq(s, 1, i - 1)>> \o Split(SubSeq(s, i + 1, Len(s)))

\* Array.prototype.join("/")
RECURSIVE Join(_)
Join(parts) ==
    IF parts = <<>> THEN <<>>
    ELSE IF Len(parts) = 1 THEN parts[1]
    ELSE parts[1] \o <<"/">> \o Join(Tail(parts))

-----------------------------------------------------------------------------
(* pathToPathname                                                          *)

INDEX == <<"i", "n", "d", "e", "x">>

\* a plausible slip: the catch-all name is sliced from offset 3
TranslatePartOff(part) ==
    IF StartsWith(part, <<"[", ".", ".", ".">>) /\ EndsWith(part, <<"]">>)
    THEN <<":">> \o Slice(part, 3, Len(part) - 1) \o <<"*">>
    ELSE IF StartsWith(part, <<"[">>) /\ EndsWith(part, <<"]">>)
    THEN <<":">> \o Slice(part, 1, Len(part) - 1)
    ELSE part

\* the callback of parts.map(...)
TranslatePart(part) ==
    IF StartsWith(part, <<"[", ".", ".", ".">>) /\ EndsWith(part, <<"]">>)
    THEN <<":">> \o Slice(part, 4, Len(part) - 1) \o <<"*">>
    ELSE IF StartsWith(part, <<"[">>) /\ EndsWith(part, <<"]">>)
    THEN <<":">> \o Slice(part, 1, Len(part) - 1)
    ELSE part

pathToPathname(path) ==
    LET parts0 == Split(path)
        parts == IF Last(parts0) = INDEX THEN Front(parts0) ELSE parts0
    IN <<"/">> \o Join([i \in 1..Len(parts) |-> TranslatePart(parts[i])])

\* segments the input paths are written with
PathSegments ==
    { INDEX,
      <<"b", "l", "o", "g">>,
      <<"[", "i", "d", "]">>,
      <<"[", ".", ".", ".", "s", "l", "u", "g", "]">>,
      <<"[", ".", ".", ".", "]">>,
      <<"[", "]">>,
      <<"[", "i", "d">>,
      <<"i", "d", "]">>,
      <<"[", ".", ".", "x", "]">>,
      <<>> }

MaxSegs == 3

SeqsUpTo(S, n) == UNION { [1..k -> S] : k \in 0..n }

PathInit ==
    /\ pathSegs \in SeqsUpTo(PathSegments, MaxSegs) \ {<<>>}
    /\ pathIn = Join(pathSegs)
    /\ pathOut = Nothing

PathIdle ==
    /\ pathSegs = <<>>
    /\ pathIn = <<>>
    /\ pathOut = Nothing

CallPathToPathname ==
    /\ pathOut = Nothing
    /\ pathOut' = Some(pathToPathname(pathIn))
    /\ UNCHANGED <<pathSegs, pathIn>>

-----------------------------------------------------------------------------
(* sortRoutes                                                              *)

Max(a, b) == IF a >= b THEN a ELSE b
Min(a, b) == IF a <= b THEN a ELSE b

\* a plausible slip: a catch-all outranks a named parameter
PriorityNamedLast(part) ==
    IF StartsWith(part, <<":">>)
    THEN (IF EndsWith(part, <<"*">>) THEN 1 ELSE 0)
    ELSE 2

\* the tier of a differing segment: 0 wildcard, 1 named, 2 static
Priority(part) ==
    IF StartsWith(part, <<":">>)
    THEN (IF EndsWith(part, <<"*">>) THEN 0 ELSE 1)
    ELSE 2

RECURSIVE CompareFrom(_, _, _)
CompareFrom(partsA, partsB, i) ==
    IF i > Max(Len(partsA), Len(partsB)) THEN 0
    ELSE IF i > Len(partsA) THEN -1
    ELSE IF i > Len(partsB) THEN 1
    ELSE IF partsA[i] = partsB[i] THEN CompareFrom(partsA, partsB, i + 1)
    ELSE Max(Min(Priority(partsB[i]) - Priority(partsA[i]), 1), -1)

\* a plausible slip: the shorter-path rule returns -1 on both sides
compareShort(a, b) ==
    LET partsA == Split(a.pathname)
        partsB == Split(b.pathname)
        n == Min(Len(partsA), Len(partsB))
    IN IF Len(partsA) # Len(partsB) /\ SubSeq(partsA, 1, n) = SubSeq(partsB, 1, n)
       THEN -1
       ELSE CompareFrom(partsA, partsB, 1)

\* the comparator handed to routes.sort
compare(a, b) == CompareFrom(Split(a.pathname), Split(b.pathname), 1)

Reverse(s) == [i \in 1..Len(s) |-> s[Len(s) + 1 - i]]

\* Array.prototype.sort as the engine of the build (V8) runs it on an array
\* shorter than 64 elements: the initial run is counted (a strictly
\* descending one is reversed), the rest is inserted by binary insertion.
RECURSIVE CountRun(_, _, _)
CountRun(arr, descending, idx) ==
    IF idx > Len(arr) THEN Len(arr)
    ELSE LET order == compare(arr[idx], arr[idx - 1]) IN
         IF (descending /\ order >= 0) \/ (~descending /\ order < 0)
         THEN idx - 1
         ELSE CountRun(arr, descending, idx + 1)

CountAndMakeRun(arr) ==
    LET descending == compare(arr[2], arr[1]) < 0
        run == CountRun(arr, descending, 3)
    IN [run |-> run,
        arr |-> IF descending
                THEN Reverse(SubSeq(arr, 1, run)) \o SubSeq(arr, run + 1, Len(arr))
                ELSE arr]

RECURSIVE BinarySearch(_, _, _, _)
BinarySearch(arr, pivot, left, right) ==
    IF left >= right THEN left
    ELSE LET mid == left + ((right - left) \div 2) IN
         IF compare(pivot, arr[mid]) < 0
         THEN BinarySearch(arr, pivot, left, mid)
         ELSE BinarySearch(arr, pivot, mid + 1, right)

RECURSIVE BinaryInsertionSort(_, _)
BinaryInsertionSort(arr, start) ==
    IF start > Len(arr) THEN arr
    ELSE LET pivot == arr[start]
             pos == BinarySearch(arr, pivot, 1, start)
             moved == SubSeq(arr, 1, pos - 1) \o <<pivot>>
                      \o SubSeq(arr, pos, start - 1)
                      \o SubSeq(arr, start + 1, Len(arr))
         IN BinaryInsertionSort(moved, start + 1)

ArraySort(arr) ==
    IF Len(arr) < 2 THEN arr
    ELSE LET r == CountAndMakeRun(arr) IN BinaryInsertionSort(r.arr, r.run + 1)

sortRoutes(list) == ArraySort(list)

\* pathnames of the entries handed to sortRoutes
P_root == <<"/">>
P_id == <<"/", ":", "i", "d">>
P_path == <<"/", ":", "p", "a", "t", "h", "*">>
P_a == <<"/", "a">>
P_a_d == <<"/", "a", "/", "d">>
P_a_x == <<"/", "a", "/", ":", "x">>
P_b_c == <<"/", "b", "/", "c">>
P_x_a == <<"/", ":", "x", "/", "a">>
P_b_y == <<"/", "b", "/", ":", "y">>

SortPathnames == {P_root, P_id, P_path, P_a, P_a_d, P_a_x, P_b_c, P_x_a, P_b_y}

MaxRoutes == 4

\* an entry is {file, pathname}; the file of an entry is its place in the
\* list of files, so two entries are never the same object
SortInit ==
    /\ \E ps \in SeqsUpTo(SortPathnames, MaxRoutes) :
          sortIn = [i \in 1..Len(ps) |-> [file |-> i, pathname |-> ps[i]]]
    /\ sortOut = Nothing
    /\ sortTwice = Nothing

SortIdle ==
    /\ sortIn = <<>>
    /\ sortOut = Nothing
    /\ sortTwice = Nothing

CallSortRoutes ==
    /\ sortOut = Nothing
    /\ sortOut' = Some(sortRoutes(sortIn))
    /\ UNCHANGED <<sortIn, sortTwice>>

CallSortRoutesAgain ==
    /\ sortOut # Nothing
    /\ sortTwice = Nothing
    /\ sortTwice' = Some(sortRoutes(The(sortOut)))
    /\ UNCHANGED <<sortIn, sortOut>>

-----------------------------------------------------------------------------
(* URLPattern: new URLPattern({ pathname }) and exec                       *)

SCOPE == <<"{", "/", "*", "}", "?">>

IsParam(part) == StartsWith(part, <<":">>)
IsWildcard(part) == StartsWith(part, <<":">>) /\ EndsWith(part, <<"*">>)

\* segments of a pattern against segments of a path: a static segment
\* matches itself, ":name" one non-empty segment, ":name*" any number of
\* non-empty segments
RECURSIVE MatchParts(_, _)
MatchParts(pp, us) ==
    IF pp = <<>> THEN us = <<>>
    ELSE IF IsWildcard(pp[1])
    THEN \E k \in 0..Len(us) :
            /\ \A j \in 1..k : us[j] # <<>>
            /\ MatchParts(Tail(pp), SubSeq(us, k + 1, Len(us)))
    ELSE IF IsParam(pp[1])
    THEN us # <<>> /\ us[1] # <<>> /\ MatchParts(Tail(pp), Tail(us))
    ELSE us # <<>> /\ us[1] = pp[1] /\ MatchParts(Tail(pp), Tail(us))

\* compiledPattern.exec(url) # null; a pattern ending in "{/*}?" matches its
\* base and everything below it
PatternExec(pattern, pathname) ==
    IF EndsWith(pattern, SCOPE)
    THEN LET base == Split(SubSeq(pattern, 1, Len(pattern) - Len(SCOPE)))
             us == Split(pathname)
         IN \E k \in 1..Len(us) : MatchParts(base, SubSeq(us, 1, k))
    ELSE MatchParts(Split(pattern), Split(pathname))

\* router: the first entry of the route table whose pattern matches, 0 when
\* the request goes to the not-found page
RECURSIVE FirstMatchFrom(_, _, _)
FirstMatchFrom(table, pathname, i) ==
    IF i > Len(table) THEN 0
    ELSE IF PatternExec(table[i].pathname, pathname) THEN i
    ELSE FirstMatchFrom(table, pathname, i + 1)

FirstMatch(table, pathname) == FirstMatchFrom(table, pathname, 1)

-----------------------------------------------------------------------------
(* ServerContext: selectMiddlewares, the middleware chain, handler         *)

Reqs == {"r1", "r2"}

\* who produced a response or an error
Fn(i, j) == [kind |-> "mw", mw |-> i, fn |-> j]
FINAL == [kind |-> "final", mw |-> 0, fn |-> 0]
ERRORPAGE == [kind |-> "error", mw |-> 0, fn |-> 0]
NEXT == [kind |-> "next", mw |-> 0, fn |-> 0]
REDIRECT == [kind |-> "redirect", mw |-> 0, fn |-> 0]
NOBODY == [kind |-> "nobody", mw |-> 0, fn |-> 0]

\* what a call gives its caller: a response, or an error that is thrown
\* synchronously (sync) or is the reason of a rejected promise
NoOutcome == [type |-> "none", by |-> NOBODY, sync |-> FALSE]
Response(by) == [type |-> "response", by |-> by, sync |-> FALSE]
Throw(by, sync) == [type |-> "throw", by |-> by, sync |-> sync]

\* what the hosting layer gets
NoResult == [type |-> "none", by |-> NOBODY, status |-> 0, location |-> <<>>]
Resolved(by, status, location) ==
    [type |-> "response", by |-> by, status |-> status, location |-> location]
Rejected(by) == [type |-> "rejected", by |-> by, status |-> 0, location |-> <<>>]

TemporaryRedirect == 307
OK == 200
InternalServerError == 500

RECURSIVE SelectFrom(_, _, _)
SelectFrom(pathname, table, i) ==
    IF i > Len(table) THEN <<>>
    ELSE (IF PatternExec(table[i].pathname, pathname)
          THEN <<[handler |-> table[i].handler]>>
          ELSE <<>>) \o SelectFrom(pathname, table, i + 1)

\* a plausible slip: the loop stops at the first match
selectFirst(pathname, table) ==
    LET mws == SelectFrom(pathname, table, 1)
    IN IF mws = <<>> THEN <<>> ELSE <<mws[1]>>

selectMiddlewares(pathname, table) == SelectFrom(pathname, table, 1)

\* for (const mw of mws): one thunk per handler function
RECURSIVE Thunks(_)
Thunks(mws) ==
    IF mws = <<>> THEN <<>>
    ELSE mws[1].handler.fns \o Thunks(Tail(mws))

\* a plausible slip: paths ending in "/" are only redirected when they
\* end in "//"
NeedsRedirectTwo(pathname) ==
    Len(pathname) > 1 /\ EndsWith(pathname, <<"/", "/">>)

NeedsRedirect(pathname) ==
    Len(pathname) > 1 /\ EndsWith(pathname, <<"/">>)

\* a plausible slip: one trailing slash is removed
StripOneSlash(pathname) ==
    IF pathname # <<>> /\ Last(pathname) = "/" THEN Front(pathname)
                                                ELSE pathname

\* url.pathname.replace(/\/+$/, "")
RECURSIVE StripSlashes(_)
StripSlashes(pathname) ==
    IF pathname # <<>> /\ Last(pathname) = "/"
    THEN StripSlashes(Front(pathname))
    ELSE pathname

\* a running thunk: how often it has called next() and what the last
\* next() gave it
Frame(thunk) == [thunk |-> thunk, calls |-> 0, got |-> NoOutcome]

Top(r) == Last(stack[r])
Running(r) == pc[r] = "chain" /\ stack[r] # <<>>
MwRunning(r) == Running(r) /\ Top(r).thunk.kind = "mw"
FinalRunning(r) == Running(r) /\ Top(r).thunk.kind = "final"

SetTop(r, f) == [stack EXCEPT ![r] = Front(@) \o <<f>>]

MaxNextCalls == 2

\* a plausible slip: the destination stays what middlewareCtx was created
\* with
DestinationDefault(route) == "route"

\* the destination inner(req, ctx) returns with the handler: route 0 is the
\* not-found page
DestinationOf(route) == IF route = 0 THEN "notFound" ELSE "route"

\* The top-level handler, up to and including the first next() of
\* #composeMiddlewares.
Handler(r, u) ==
    /\ pc[r] = "idle"
    /\ url' = [url EXCEPT ![r] = u]
    /\ IF NeedsRedirect(u.pathname)
       THEN /\ result' = [result EXCEPT ![r] =
                   Resolved(REDIRECT, TemporaryRedirect,
                            StripSlashes(u.pathname) \o u.search)]
            /\ pc' = [pc EXCEPT ![r] = "done"]
            /\ UNCHANGED <<selected, resolved, destination, handlers, stack,
                           invoked>>
       ELSE LET mws == selectMiddlewares(u.pathname, middlewares)
                route == FirstMatch(routes, u.pathname)
                queue == Thunks(mws) \o <<FINAL>>
            IN /\ selected' = [selected EXCEPT ![r] = Some(mws)]
               /\ resolved' = [resolved EXCEPT ![r] = Some(route)]
               /\ destination' = [destination EXCEPT ![r] =
                      DestinationOf(route)]
               /\ handlers' = [handlers EXCEPT ![r] = Tail(queue)]
               /\ stack' = [stack EXCEPT ![r] = <<Frame(Head(queue))>>]
               /\ invoked' = [invoked EXCEPT ![r] = <<Head(queue)>>]
               /\ pc' = [pc EXCEPT ![r] = "chain"]
               /\ UNCHANGED result
    /\ UNCHANGED <<ctxError, shortCircuit, finalThrew, caught, escaped>>

\* The running thunk completes with outcome o: its caller is the middleware
\* below it on the stack, or the top of the chain,
\*   middlewareCtx.next().catch((e) => errorHandler(req, ctx, e)).
Complete(r, o) ==
    LET rest == Front(stack[r]) IN
    IF rest # <<>>
    THEN /\ stack' = [stack EXCEPT ![r] =
                Front(rest) \o <<[Last(rest) EXCEPT !.got = o]>>]
         /\ UNCHANGED <<pc, result, ctxError, invoked, escaped>>
    ELSE /\ stack' = [stack EXCEPT ![r] = <<>>]
         /\ IF o.type = "response"
            THEN /\ result' = [result EXCEPT ![r] = Resolved(o.by, OK, <<>>)]
                 /\ pc' = [pc EXCEPT ![r] = "done"]
                 /\ UNCHANGED <<ctxError, invoked, escaped>>
            ELSE IF o.sync
            THEN /\ result' = [result EXCEPT ![r] = Rejected(o.by)]
                 /\ pc' = [pc EXCEPT ![r] = "done"]
                 /\ escaped' = [escaped EXCEPT ![r] = Some(o.by)]
                 /\ UNCHANGED <<ctxError, invoked>>
            ELSE /\ pc' = [pc EXCEPT ![r] = "error"]
                 /\ ctxError' = [ctxError EXCEPT ![r] = Some(o.by)]
                 /\ invoked' = [invoked EXCEPT ![r] = Append(@, ERRORPAGE)]
                 /\ escaped' = [escaped EXCEPT ![r] = Some(o.by)]
                 /\ UNCHANGED result

\* a plausible slip: next() on the emptied queue returns the promise of a
\* thunk nobody starts, and the caller waits for it
MwCallNextWaits(r) ==
    /\ MwRunning(r)
    /\ Top(r).got.type # "throw"
    /\ Top(r).calls < MaxNextCalls
    /\ LET thunk == IF handlers[r] = <<>> THEN NEXT ELSE Head(handlers[r]) IN
       /\ stack' = [stack EXCEPT ![r] =
              Front(@) \o <<[Top(r) EXCEPT !.calls = @ + 1,
                                           !.got = NoOutcome],
                            Frame(thunk)>>]
       /\ handlers' = [handlers EXCEPT ![r] =
              IF @ = <<>> THEN <<>> ELSE Tail(@)]
       /\ invoked' = [invoked EXCEPT ![r] =
              IF thunk = NEXT THEN @ ELSE Append(@, thunk)]
    /\ UNCHANGED <<pc, url, selected, resolved, destination, ctxError, result,
                   shortCircuit, finalThrew, caught, escaped>>

\* a plausible slip: next() on the emptied queue starts the terminal thunk
\* once more (the queue read by index, the last entry kept)
MwCallNextAgain(r) ==
    /\ MwRunning(r)
    /\ Top(r).got.type # "throw"
    /\ Top(r).calls < MaxNextCalls
    /\ LET thunk == IF handlers[r] = <<>> THEN FINAL ELSE Head(handlers[r]) IN
       /\ stack' = [stack EXCEPT ![r] =
              Front(@) \o <<[Top(r) EXCEPT !.calls = @ + 1,
                                           !.got = NoOutcome],
                            Frame(thunk)>>]
       /\ handlers' = [handlers EXCEPT ![r] =
              IF @ = <<>> THEN <<>> ELSE Tail(@)]
       /\ invoked' = [invoked EXCEPT ![r] = Append(@, thunk)]
    /\ UNCHANGED <<pc, url, selected, resolved, destination, ctxError, result,
                   shortCircuit, finalThrew, caught, escaped>>

\* next(): handlers.shift()!, then Promise.resolve(handler())
MwCallNext(r) ==
    /\ MwRunning(r)
    /\ Top(r).got.type # "throw"
    /\ Top(r).calls < MaxNextCalls
    /\ IF handlers[r] = <<>>
       THEN /\ stack' = SetTop(r, [Top(r) EXCEPT !.calls = @ + 1,
                                                 !.got = Throw(NEXT, TRUE)])
            /\ UNCHANGED <<handlers, invoked>>
       ELSE /\ stack' = [stack EXCEPT ![r] =
                   Front(@) \o <<[Top(r) EXCEPT !.calls = @ + 1,
                                                !.got = NoOutcome],
                                 Frame(Head(handlers[r]))>>]
            /\ handlers' = [handlers EXCEPT ![r] = Tail(@)]
            /\ invoked' = [invoked EXCEPT ![r] = Append(@, Head(handlers[r]))]
    /\ UNCHANGED <<pc, url, selected, resolved, destination, ctxError, result,
                   shortCircuit, finalThrew, caught, escaped>>

\* a middleware handler returns a response of its own
MwReturn(r) ==
    /\ MwRunning(r)
    /\ Top(r).got.type # "throw"
    /\ shortCircuit' = [shortCircuit EXCEPT ![r] =
           IF Top(r).calls = 0 THEN @ \cup {Top(r).thunk} ELSE @]
    /\ Complete(r, Response(Top(r).thunk))
    /\ UNCHANGED <<url, selected, resolved, destination, handlers,
                   finalThrew, caught>>

\* a middleware handler returns the response next() gave it
MwPass(r) ==
    /\ MwRunning(r)
    /\ Top(r).got.type = "response"
    /\ Complete(r, Top(r).got)
    /\ UNCHANGED <<url, selected, resolved, destination, handlers,
                   shortCircuit, finalThrew, caught>>

\* a middleware handler throws: an async function rejects, any other
\* function throws synchronously
MwThrow(r, async) ==
    /\ MwRunning(r)
    /\ Top(r).got.type # "throw"
    /\ Complete(r, Throw(Top(r).thunk, ~async))
    /\ UNCHANGED <<url, selected, resolved, destination, handlers,
                   shortCircuit, finalThrew, caught>>

\* a middleware handler handles the error of next() (try/catch, .catch)
MwCatch(r) ==
    /\ MwRunning(r)
    /\ Top(r).got.type = "throw"
    /\ stack' = SetTop(r, [Top(r) EXCEPT !.got = NoOutcome])
    /\ caught' = [caught EXCEPT ![r] = TRUE]
    /\ UNCHANGED <<pc, url, selected, resolved, destination, handlers,
                   ctxError, result, invoked, shortCircuit, finalThrew,
                   escaped>>

\* a middleware handler lets the error of next() through: it stays a
\* synchronous throw only through functions that are not async
MwRethrow(r, async) ==
    /\ MwRunning(r)
    /\ Top(r).got.type = "throw"
    /\ Complete(r, Throw(Top(r).got.by, Top(r).got.sync /\ ~async))
    /\ UNCHANGED <<url, selected, resolved, destination, handlers,
                   shortCircuit, finalThrew, caught>>

\* the route or not-found handler returns a response
FinalReturn(r) ==
    /\ FinalRunning(r)
    /\ Complete(r, Response(FINAL))
    /\ UNCHANGED <<url, selected, resolved, destination, handlers,
                   shortCircuit, finalThrew, caught>>

\* the route or not-found handler throws (sync) or rejects
FinalThrow(r, sync) ==
    /\ FinalRunning(r)
    /\ finalThrew' = [finalThrew EXCEPT ![r] = TRUE]
    /\ Complete(r, Throw(FINAL, sync))
    /\ UNCHANGED <<url, selected, resolved, destination, handlers,
                   shortCircuit, caught>>

\* errorHandler: this.#error.handler(req, {...ctx, error, render})
ErrorHandlerReturn(r) ==
    /\ pc[r] = "error"
    /\ result' = [result EXCEPT ![r] =
           Resolved(ERRORPAGE, InternalServerError, <<>>)]
    /\ pc' = [pc EXCEPT ![r] = "done"]
    /\ UNCHANGED <<url, selected, resolved, destination, handlers, stack,
                   ctxError, invoked, shortCircuit, finalThrew, caught,
                   escaped>>

\* a plausible slip: a failure of the error handler is handed to the error
\* handler again
ErrorHandlerRetry(r) ==
    /\ pc[r] = "error"
    /\ invoked' = [invoked EXCEPT ![r] = Append(@, ERRORPAGE)]
    /\ ctxError' = [ctxError EXCEPT ![r] = Some(ERRORPAGE)]
    /\ UNCHANGED <<pc, url, selected, resolved, destination, handlers, stack,
                   result, shortCircuit, finalThrew, caught, escaped>>

\* the error handler throws or rejects: nothing is chained after the
\* .catch, the promise the top-level handler awaits rejects
ErrorHandlerThrow(r) ==
    /\ pc[r] = "error"
    /\ result' = [result EXCEPT ![r] = Rejected(ERRORPAGE)]
    /\ pc' = [pc EXCEPT ![r] = "done"]
    /\ UNCHANGED <<url, selected, resolved, destination, handlers, stack,
                   ctxError, invoked, shortCircuit, finalThrew, caught,
                   escaped>>

\* ---- the tables and the requests of the model ----

M_root == SCOPE
M_admin == <<"/", "a", "d", "m", "i", "n">> \o SCOPE

MwPathnames == {M_root, M_admin}

MaxMiddlewares == 2

\* the entry at place i of the manifest has the handler functions Fn(i, _)
MiddlewareTables ==
    { [i \in 1..Len(ps) |->
          [pathname |-> ps[i],
           handler |-> [array |-> ar[i],
                        fns |-> IF ar[i] THEN <<Fn(i, 1), Fn(i, 2)>>
                                         ELSE <<Fn(i, 1)>>]]] :
      <<ps, ar>> \in UNION { [1..k -> MwPathnames] \X [1..k -> BOOLEAN] :
                             k \in 0..MaxMiddlewares } }

RouteTable ==
    << [pathname |-> P_root], [pathname |-> <<"/", "a", "d", "m", "i", "n">>],
       [pathname |-> P_id] >>

Urls ==
    { [pathname |-> <<"/">>, search |-> <<>>],
      [pathname |-> <<"/", "a", "d", "m", "i", "n">>, search |-> <<>>],
      [pathname |-> <<"/", "a", "d", "m", "i", "n", "/", "x">>, search |-> <<>>],
      [pathname |-> <<"/", "f", "o", "o", "/">>, search |-> <<"?", "q">>],
      [pathname |-> <<"/", "f", "o", "o", "/", "/">>,
       search |-> <<"?", "q", "=", "/">>],
      [pathname |-> <<"/", "/">>, search |-> <<>>] }

\* DEFAULT_NOT_FOUND and DEFAULT_ERROR
DefaultPages ==
    [notFound |-> [pathname |-> <<>>, name |-> "_404", csp |-> FALSE],
     error |-> [pathname |-> <<>>, name |-> "_500", csp |-> FALSE]]

TablesInit ==
    /\ routes = RouteTable
    /\ middlewares \in MiddlewareTables
    /\ pages = DefaultPages

TablesIdle ==
    /\ routes = <<>>
    /\ middlewares = <<>>
    /\ pages = DefaultPages

\* a plausible slip: next() shifts the middleware table itself, the queue
\* of thunks being the table and not a list of its own
TablesShifted ==
    /\ routes' = routes
    /\ pages' = pages
    /\ middlewares' = IF middlewares = <<>> THEN <<>> ELSE Tail(middlewares)

\* what a step of a request does to the tables: selectMiddlewares and the
\* router read them, the queue next() shifts is an array of the request
TablesRead == UNCHANGED tableVars

ReqInit ==
    /\ pc = [r \in Reqs |-> "idle"]
    /\ url = [r \in Reqs |-> [pathname |-> <<>>, search |-> <<>>]]
    /\ selected = [r \in Reqs |-> Nothing]
    /\ resolved = [r \in Reqs |-> Nothing]
    /\ destination = [r \in Reqs |-> "route"]
    /\ handlers = [r \in Reqs |-> <<>>]
    /\ stack = [r \in Reqs |-> <<>>]
    /\ ctxError = [r \in Reqs |-> Nothing]
    /\ result = [r \in Reqs |-> NoResult]
    /\ invoked = [r \in Reqs |-> <<>>]
    /\ shortCircuit = [r \in Reqs |-> {}]
    /\ finalThrew = [r \in Reqs |-> FALSE]
    /\ caught = [r \in Reqs |-> FALSE]
    /\ escaped = [r \in Reqs |-> Nothing]

-----------------------------------------------------------------------------
(* internalRender                                                          *)

NONE == <<"'", "n", "o", "n", "e", "'">>
UNSAFE_INLINE ==
    <<"'", "u", "n", "s", "a", "f", "e", "-", "i", "n", "l", "i", "n", "e", "'">>

\* nonce(val): the source expression 'nonce-<val>'
nonce(val) == <<"'", "n", "o", "n", "c", "e", "-">> \o val \o <<"'">>

\* a directive that is not set is Nothing
defaultCsp ==
    [directives |-> [defaultSrc |-> Some(<<NONE>>),
                     styleSrc |-> Some(<<UNSAFE_INLINE>>),
                     scriptSrc |-> Nothing,
                     connectSrc |-> Nothing],
     reportOnly |-> FALSE]

\* randomUUID().replace(/-/g, "")
StripDashes(uuid) == SelectSeq(uuid, LAMBDA c : c # "-")

\* template(opts), layout: the document is built from opts.styles.map(...)
\* and opts.moduleScripts.map(...), which throws a TypeError when
\* opts.styles is undefined
template(opts) ==
    IF "styles" \in DOMAIN opts
    THEN [type |-> "html", moduleScripts |-> opts.moduleScripts,
          lang |-> opts.lang]
    ELSE [type |-> "TypeError", moduleScripts |-> <<>>, lang |-> ""]

MaxImports == 2

\* how many calls of internalRender a behaviour has
MaxRenders == 2

\* the values crypto.randomUUID() can return: more than the calls of a
\* behaviour draw
Hex == <<"0", "1", "2", "3", "4", "5", "6", "7", "8", "9", "a", "b", "c",
         "d", "e", "f">>
Uuid(i) == <<Hex[((i - 1) \div 16) + 1], Hex[((i - 1) % 16) + 1], "-", "4">>
UuidCount == MaxRenders * (MaxImports + 1) + 1
Uuids == { Uuid(i) : i \in 1..UuidCount }

\* crypto.randomUUID() returns a value it has not returned before: one of
\* the first two of the values not returned so far
Fresh(used) ==
    { Uuid(i) : i \in { j \in 1..UuidCount :
                           /\ Uuid(j) \notin used
                           /\ Cardinality({ k \in 1..(j - 1) :
                                             Uuid(k) \notin used }) < 2 } }

\* what the render hook appends to ctx.styles
StyleLists == { <<>>, <<"a{}">>, <<"b{}", "a{}">> }

ModuleUrls == {"/a.js", "/b.js"}

\* what the page's render function returns: a string, the empty string, a
\* stream, or nothing
RenderResults == {"string", "empty", "stream", "void"}
Falsy(v) == v \in {"empty", "void"}

\* a plausible slip: only a render result that is falsy is refused
NoOutletFalsy(outlet) == outlet # Nothing /\ Falsy(The(outlet))

\* !outlet, outlet being null until the inner render function has run
NoOutlet(outlet) == outlet = Nothing \/ Falsy(The(outlet))

RenderInit ==
    /\ rOpts \in [csp : BOOLEAN,
                  imports : SeqsUpTo(ModuleUrls, MaxImports),
                  hookCallsRender : BOOLEAN,
                  renders : RenderResults,
                  lang : {Nothing},
                  hookStyles : {<<>>},
                  hookLang : {Nothing},
                  component : {"sync"},
                  hookCatches : {FALSE}]
    /\ rPc = "idle"
    /\ rCsp = Nothing
    /\ rCtx = Nothing
    /\ rOutlet = Nothing
    /\ rScripts = <<>>
    /\ rUuids = {}
    /\ rTemplate = Nothing
    /\ rResult = Nothing
    /\ rHooked = 0
    /\ rPast = <<>>

RenderIdle ==
    /\ rOpts = [csp |-> FALSE, imports |-> <<>>, hookCallsRender |-> FALSE,
                renders |-> "void", lang |-> Nothing, hookStyles |-> <<>>,
                hookLang |-> Nothing, component |-> "sync",
                hookCatches |-> FALSE]
    /\ rPc = "idle"
    /\ rCsp = Nothing
    /\ rCtx = Nothing
    /\ rOutlet = Nothing
    /\ rScripts = <<>>
    /\ rUuids = {}
    /\ rTemplate = Nothing
    /\ rResult = Nothing
    /\ rHooked = 0
    /\ rPast = <<>>

\* a plausible slip: the context of the call before is used again
ReusedContext(id, lang, past) ==
    IF past = <<>>
    THEN [ref |-> 1, id |-> id, lang |-> lang, styles |-> <<>>, state |-> {}]
    ELSE past[Len(past)].ctx

\* new InnerRenderContext(id, url, route, lang): a new object (ref), whose
\* #state is a new Map and whose #styles is a new array
InnerRenderContext(id, lang, past) ==
    [ref |-> Len(past) + 1, id |-> id, lang |-> lang, styles |-> <<>>,
     state |-> {}]

\* render(opts) of a page, up to the component being called: the error it
\* throws, Nothing when it goes on to render the component
render(component) ==
    IF component = "none" THEN Some("NoComponent")
    ELSE IF component = "async" THEN Some("AsyncComponent")
    ELSE Nothing

\* the csp and the InnerRenderContext of the call
InternalRender ==
    /\ rPc = "idle"
    /\ \E id \in Fresh(rUuids) :
          /\ rUuids' = rUuids \cup {id}
          /\ rCtx' = Some(InnerRenderContext(
                             id,
                             IF rOpts.lang = Nothing THEN "en"
                                                     ELSE The(rOpts.lang),
                             rPast))
    /\ rCsp' = IF rOpts.csp THEN Some(defaultCsp) ELSE Nothing
    /\ rPc' = "hook"
    /\ UNCHANGED <<rOpts, rOutlet, rScripts, rTemplate, rResult, rHooked,
                   rPast>>

\* await renderPage(ctx, async () => ...), then if (!outlet) throw: the
\* inner render function rejects when render(renderContext) throws, and
\* the hook lets that through or handles it
RenderPage ==
    /\ rPc = "hook"
    /\ rHooked' = rHooked + 1
    /\ rCtx' = Some([The(rCtx) EXCEPT
                       !.styles = @ \o rOpts.hookStyles,
                       !.state = @ \cup {"rendered"},
                       !.lang = IF rOpts.hookLang = Nothing
                                THEN @ ELSE The(rOpts.hookLang)])
    /\ LET thrown == IF rOpts.hookCallsRender
                     THEN render(rOpts.component) ELSE Nothing
           outlet == IF rOpts.hookCallsRender /\ thrown = Nothing
                        /\ rOpts.renders # "void"
                     THEN Some(rOpts.renders) ELSE Nothing
       IN /\ rOutlet' = outlet
          /\ IF thrown # Nothing /\ ~rOpts.hookCatches
             THEN /\ rResult' = Some([type |-> "error", error |-> The(thrown),
                                      csp |-> Nothing])
                  /\ rPc' = "done"
             ELSE IF NoOutlet(outlet)
             THEN /\ rResult' = Some([type |-> "error", error |-> "NotCalled",
                                      csp |-> Nothing])
                  /\ rPc' = "done"
             ELSE /\ rPc' = "scripts"
                  /\ UNCHANGED rResult
    /\ UNCHANGED <<rOpts, rCsp, rScripts, rUuids, rTemplate, rPast>>

\* one round of for (const url of opts.imports)
PushModuleScript ==
    /\ rPc = "scripts"
    /\ Len(rScripts) < Len(rOpts.imports)
    /\ \E uuid \in Fresh(rUuids) :
          LET randomNonce == StripDashes(uuid)
              moduleUrl == rOpts.imports[Len(rScripts) + 1]
          IN /\ rUuids' = rUuids \cup {uuid}
             /\ rCsp' = IF rCsp # Nothing
                        THEN Some([The(rCsp) EXCEPT !.directives.scriptSrc =
                                 Some((IF @ = Nothing THEN <<>> ELSE The(@))
                                      \o <<nonce(randomNonce)>>)])
                        ELSE rCsp
             /\ rScripts' = Append(rScripts, <<moduleUrl, randomNonce>>)
    /\ UNCHANGED <<rOpts, rPc, rCtx, rOutlet, rTemplate, rResult, rHooked,
                   rPast>>

\* const html = template({...}); return [html, csp]
CallTemplate ==
    /\ rPc = "scripts"
    /\ Len(rScripts) = Len(rOpts.imports)
    /\ LET opts == [outlet |-> rOutlet, clientEntry |-> "", meta |-> <<>>,
                    esModulePolyfillUrl |-> "", importmap |-> <<>>,
                    moduleScripts |-> rScripts, lang |-> The(rCtx).lang]
           html == template(opts)
       IN /\ rTemplate' = Some(opts)
          /\ rResult' = IF html.type = "html"
                        THEN Some([type |-> "returned", error |-> "",
                                   csp |-> rCsp])
                        ELSE Some([type |-> "error", error |-> html.type,
                                   csp |-> Nothing])
    /\ rPc' = "done"
    /\ UNCHANGED <<rOpts, rCsp, rCtx, rOutlet, rScripts, rUuids, rHooked,
                   rPast>>

\* the options of the calls whose render hook appends styles and sets the
\* language
HookInit ==
    /\ rOpts \in [csp : BOOLEAN,
                  imports : SeqsUpTo({"/a.js"}, MaxImports),
                  hookCallsRender : BOOLEAN,
                  renders : {"string", "void"},
                  lang : {Nothing, Some("de")},
                  hookStyles : StyleLists,
                  hookLang : {Nothing, Some("fr")},
                  component : {"sync"},
                  hookCatches : {FALSE}]
    /\ rPc = "idle"
    /\ rCsp = Nothing
    /\ rCtx = Nothing
    /\ rOutlet = Nothing
    /\ rScripts = <<>>
    /\ rUuids = {}
    /\ rTemplate = Nothing
    /\ rResult = Nothing
    /\ rHooked = 0
    /\ rPast = <<>>

\* a plausible slip: the list is created with the client entry in it
GenRenderPreloads == <<"/a.js">>

\* const imports: string[] = [] of genRender: one list for a page, made when
\* the handlers are built, handed to every internalRender of the page
GenRenderImports == <<>>

\* the render function genRender makes for a page, called by one request
\* after the other
ImportsInit ==
    /\ rOpts \in [csp : BOOLEAN,
                  imports : {GenRenderImports},
                  hookCallsRender : BOOLEAN,
                  renders : {"string", "void"},
                  lang : {Nothing},
                  hookStyles : StyleLists,
                  hookLang : {Nothing},
                  component : {"sync", "none"},
                  hookCatches : {FALSE}]
    /\ rPc = "idle"
    /\ rCsp = Nothing
    /\ rCtx = Nothing
    /\ rOutlet = Nothing
    /\ rScripts = <<>>
    /\ rUuids = {}
    /\ rTemplate = Nothing
    /\ rResult = Nothing
    /\ rHooked = 0
    /\ rPast = <<>>

\* the pages of the requests whose handler returns ctx.render(): with a
\* component, with an async component, without a component
PageInit ==
    /\ rOpts \in [csp : {FALSE},
                  imports : {GenRenderImports},
                  hookCallsRender : BOOLEAN,
                  renders : {"string", "void"},
                  lang : {Nothing},
                  hookStyles : {<<>>},
                  hookLang : {Nothing},
                  component : {"sync", "async", "none"},
                  hookCatches : BOOLEAN]
    /\ rPc = "idle"
    /\ rCsp = Nothing
    /\ rCtx = Nothing
    /\ rOutlet = Nothing
    /\ rScripts = <<>>
    /\ rUuids = {}
    /\ rTemplate = Nothing
    /\ rResult = Nothing
    /\ rHooked = 0
    /\ rPast = <<>>

\* a plausible slip: a failed render is answered like a rendered page
RenderOutcomeSwallowed(res) == Response(FINAL)

\* what the handler (_req, { render }) => render({}) gives its caller: the
\* promise of the async render function, rejected when internalRender
\* threw
RenderOutcome(res) ==
    IF res.type = "returned" THEN Response(FINAL) ELSE Throw(FINAL, FALSE)

\* the route or not-found handler returns what ctx.render() returned
FinalReturnsRender(r) ==
    /\ FinalRunning(r)
    /\ rPc = "done"
    /\ finalThrew' = [finalThrew EXCEPT ![r] =
           RenderOutcome(The(rResult)).type = "throw"]
    /\ Complete(r, RenderOutcome(The(rResult)))
    /\ UNCHANGED <<url, selected, resolved, destination, handlers,
                   shortCircuit, caught>>

\* internalRender is called again, for the same page, after a call has ended
RenderAgain ==
    /\ rPc = "done"
    /\ Len(rPast) + 1 < MaxRenders
    /\ rPast' = Append(rPast, [ctx |-> The(rCtx), result |-> The(rResult),
                               hooked |-> rHooked])
    /\ rPc' = "idle"
    /\ rCsp' = Nothing
    /\ rCtx' = Nothing
    /\ rOutlet' = Nothing
    /\ rScripts' = <<>>
    /\ rTemplate' = Nothing
    /\ rResult' = Nothing
    /\ rHooked' = 0
    /\ UNCHANGED <<rOpts, rUuids>>

-----------------------------------------------------------------------------
(* ServerContext.fromManifest: the handler of a route                      *)

Methods == {"GET", "HEAD", "POST"}

\* the functions a route's handler can be made of: one the module declares
\* for a method, the module's single handler function, and the two that
\* fromManifest makes
Declared(method) == [fn |-> "declared", method |-> method]
FUNCTION == [fn |-> "function", method |-> ""]
RENDER == [fn |-> "render", method |-> ""]
HeadOf(get) == [fn |-> "head", get |-> get]

\* config.routeOverride of a module: not declared, the empty string, a
\* pattern
RouteOverrides == {Nothing, Some(<<>>), Some(P_b_c)}

\* the modules: handler undefined, a function, or a method map
Modules ==
    [component : BOOLEAN, handler : {"undefined", "function"}, methods : {{}},
     routeOverride : RouteOverrides]
    \cup [component : BOOLEAN, handler : {"object"}, methods : SUBSET Methods,
          routeOverride : RouteOverrides]

\* the pathname the manifest has for the module
ManifestPathname == P_a

\* a plausible slip: the override of the module is not looked at
PathnameManifest(module, pathname) == pathname

\* config?.routeOverride ? String(config.routeOverride) : pathname: the
\* empty string is falsy
PathnameOf(module, pathname) ==
    IF module.routeOverride # Nothing /\ The(module.routeOverride) # <<>>
    THEN The(module.routeOverride)
    ELSE pathname

\* let { handler } = module; handler ??= {}: a method map is a function
\* from the methods it has to their handlers
HandlerOf(module) ==
    IF module.handler = "function" THEN FUNCTION
    ELSE [m \in module.methods |-> Declared(m)]

IsObject(handler) == handler # FUNCTION

\* f with f[k] = v, k added to its domain if needed
Put(f, k, v) == [x \in DOMAIN f \cup {k} |-> IF x = k THEN v ELSE f[x]]

\* if (component && typeof handler === "object" && handler.GET === undefined)
WithGet(module, handler) ==
    IF module.component /\ IsObject(handler) /\ "GET" \notin DOMAIN handler
    THEN Put(handler, "GET", RENDER)
    ELSE handler

\* if (typeof handler === "object" && handler.GET !== undefined &&
\*     handler.HEAD === undefined)
WithHead(handler) ==
    IF IsObject(handler) /\ "GET" \in DOMAIN handler
                         /\ "HEAD" \notin DOMAIN handler
    THEN Put(handler, "HEAD", HeadOf(handler["GET"]))
    ELSE handler

\* the handler of the Route that fromManifest pushes
RouteHandler(module) == WithHead(WithGet(module, HandlerOf(module)))

\* the responses a handler can answer with
Responses ==
    [status : {200, 404}, statusText : {"", "Not Found"},
     headers : {{}, {<<"etag", "1">>}}, body : {"null", "stream"},
     cancelled : {FALSE}]

\* a plausible slip: the status of the GET response is not re-emitted
HeadResponseOK(resp) ==
    [status |-> 200, statusText |-> resp.statusText,
     headers |-> resp.headers, body |-> "null", cancelled |-> FALSE]

\* new Response(null, { headers, status, statusText })
HeadResponse(resp) ==
    [status |-> resp.status, statusText |-> resp.statusText,
     headers |-> resp.headers, body |-> "null", cancelled |-> FALSE]

\* a plausible slip: the body of the GET response is left as it is
CancelNever(resp) == resp

\* resp.body?.cancel(): a body that is a stream is cancelled
Cancel(resp) == [resp EXCEPT !.cancelled = resp.body # "null"]

\* module.handler as the manifest is given
Exported(module) ==
    IF module.handler = "undefined" THEN Nothing
    ELSE Some(HandlerOf(module))

\* module.handler after the round: `handler` is the object the module
\* exports when it exports a method map, and handler.GET = ..., handler.HEAD
\* = ... are assignments to that object; the {} of handler ??= {} is an
\* object of the round
ExportedAfter(module) ==
    IF module.handler = "object" THEN Some(RouteHandler(module))
    ELSE Exported(module)

ManifestInit ==
    /\ mModule \in Modules
    /\ mRoute = Nothing
    /\ mPathname = Nothing
    /\ mReq = Nothing
    /\ mCalls = <<>>
    /\ mGetResp = Nothing
    /\ mResp = Nothing
    /\ mExported = Exported(mModule)

ManifestIdle ==
    /\ mModule = [component |-> FALSE, handler |-> "undefined", methods |-> {},
                  routeOverride |-> Nothing]
    /\ mRoute = Nothing
    /\ mPathname = Nothing
    /\ mReq = Nothing
    /\ mCalls = <<>>
    /\ mGetResp = Nothing
    /\ mResp = Nothing
    /\ mExported = Nothing

\* the round of for (... of manifest.routes) for the module
FromManifest ==
    /\ mRoute = Nothing
    /\ mRoute' = Some(RouteHandler(mModule))
    /\ mPathname' = Some(PathnameOf(mModule, ManifestPathname))
    /\ mExported' = ExportedAfter(mModule)
    /\ UNCHANGED <<mModule, mReq, mCalls, mGetResp, mResp>>

\* a request with a method the route has a handler for; the handler answers
\* or fails
CallHandler(method) ==
    /\ mRoute # Nothing
    /\ mReq = Nothing
    /\ LET handler == The(mRoute)
           fn == IF IsObject(handler) THEN handler[method] ELSE handler
       IN /\ IsObject(handler) => method \in DOMAIN handler
          /\ mReq' = Some(method)
          /\ IF fn.fn = "head"
             THEN \* const resp = await GET(req, ctx); resp.body?.cancel()
                  /\ mCalls' = <<fn, fn.get>>
                  /\ \/ \E resp \in Responses :
                          /\ mGetResp' = Some(Cancel(resp))
                          /\ mResp' = Some([type |-> "response",
                                            response |-> HeadResponse(resp)])
                     \/ /\ mGetResp' = Nothing
                        /\ mResp' = Some([type |-> "rejected",
                                          response |-> Nothing])
             ELSE /\ mCalls' = <<fn>>
                  /\ mGetResp' = Nothing
                  /\ \/ \E resp \in Responses :
                          mResp' = Some([type |-> "response",
                                         response |-> resp])
                     \/ mResp' = Some([type |-> "rejected",
                                       response |-> Nothing])
    /\ UNCHANGED <<mModule, mRoute, mPathname, mExported>>

-----------------------------------------------------------------------------
(* genRender: the response of a render call                                *)

NotFound == 404

SELF == <<"'", "s", "e", "l", "f", "'">>

TEXT_HTML ==
    <<"t", "e", "x", "t", "/", "h", "t", "m", "l", ";", " ", "c", "h",
      "a", "r", "s", "e", "t", "=", "u", "t", "f", "-", "8">>
TEXT_PLAIN == <<"t", "e", "x", "t", "/", "p", "l", "a", "i", "n">>

\* the directives in the order Object.entries gives them, with their names
Directives ==
    << <<"defaultSrc", <<"d", "e", "f", "a", "u", "l", "t", "S", "r", "c">>>>,
       <<"styleSrc", <<"s", "t", "y", "l", "e", "S", "r", "c">>>>,
       <<"scriptSrc", <<"s", "c", "r", "i", "p", "t", "S", "r", "c">>>>,
       <<"connectSrc", <<"c", "o", "n", "n", "e", "c", "t", "S", "r", "c">>>> >>

\* m.toLowerCase() of an upper-case letter of a directive name
ToLowerCase == [c \in {"S"} |-> "s"]

\* k.replace(/[A-Z]/g, (m) => `-${m.toLowerCase()}`)
RECURSIVE SnakeCase(_)
SnakeCase(k) ==
    IF k = <<>> THEN <<>>
    ELSE (IF Head(k) \in DOMAIN ToLowerCase
          THEN <<"-", ToLowerCase[Head(k)]>>
          ELSE <<Head(k)>>) \o SnakeCase(Tail(k))

\* parts.join(sep)
RECURSIVE JoinWith(_, _)
JoinWith(parts, sep) ==
    IF parts = <<>> THEN <<>>
    ELSE IF Len(parts) = 1 THEN parts[1]
    ELSE parts[1] \o sep \o JoinWith(Tail(parts), sep)

\* the `${key} ${value}` of the directives that are set, from place i on
RECURSIVE DirectiveStrings(_, _)
DirectiveStrings(directives, i) ==
    IF i > Len(Directives) THEN <<>>
    ELSE (IF directives[Directives[i][1]] = Nothing THEN <<>>
          ELSE <<SnakeCase(Directives[i][2]) \o <<" ">>
                 \o JoinWith(The(directives[Directives[i][1]]), <<" ">>)>>)
         \o DirectiveStrings(directives, i + 1)

serializeCSPDirectives(directives) ==
    JoinWith(DirectiveStrings(directives, 1), <<";", " ">>)

\* { ...headers, ...more }
Spread(headers, more) ==
    [k \in DOMAIN headers \cup DOMAIN more |->
        IF k \in DOMAIN more THEN more[k] ELSE headers[k]]

\* csp.directives.connectSrc = [...(csp.directives.connectSrc ?? []), SELF]
WithSelf(csp) ==
    [csp EXCEPT !.directives.connectSrc =
        Some((IF @ = Nothing THEN <<>> ELSE The(@)) \o <<SELF>>)]

\* the headers of the render step
RenderHeaders(csp, dev) ==
    LET headers == [k \in {"content-type"} |-> TEXT_HTML]
        shown == IF dev THEN WithSelf(The(csp)) ELSE The(csp)
    IN IF csp = Nothing THEN headers
       ELSE Put(headers,
                IF shown.reportOnly
                THEN "content-security-policy-report-only"
                ELSE "content-security-policy",
                serializeCSPDirectives(shown.directives))

\* new HTMLResponse(body, { status, statusText, headers })
HTMLResponse(csp, dev, status, options) ==
    [status |-> IF options # Nothing /\ The(options).status # Nothing
                THEN The(The(options).status) ELSE status,
     headers |-> IF options # Nothing /\ The(options).headers # Nothing
                 THEN Spread(RenderHeaders(csp, dev),
                             The(The(options).headers))
                 ELSE RenderHeaders(csp, dev)]

\* the options of a render call: none, or a status and headers, each there
\* or not
RenderOptions ==
    {Nothing} \cup
    { Some([status |-> st, headers |-> hs]) :
        st \in {Nothing, Some(201)},
        hs \in {Nothing, Some([k \in {"content-type"} |-> TEXT_PLAIN]),
                Some([k \in {"x-frame-options"} |-> <<"D", "E", "N", "Y">>])} }

\* the status genRender is given for the kind of page
PageStatus == {OK, NotFound, InternalServerError}

RespondInit == gResp = Nothing

\* the render function after `await internalRender(...)`: the response, or
\* the error of internalRender
Respond(dev, status, options) ==
    /\ rPc = "done"
    /\ gResp = Nothing
    /\ gResp' = Some([dev |-> dev, status |-> status, options |-> options,
                      type |-> IF The(rResult).type = "returned"
                               THEN "response" ELSE "rejected",
                      response |->
                          IF The(rResult).type = "returned"
                          THEN Some(HTMLResponse(The(rResult).csp, dev,
                                                 status, options))
                          ELSE Nothing])
    /\ UNCHANGED renderVars

-----------------------------------------------------------------------------
(* ctx.state: the state map of a request                                   *)

\* a plausible slip: the state map is created once, outside the function
\* that handles a request
SharedState(maps) == 1

\* state: {} of middlewareCtx: a map that did not exist before
NewState(maps) == Len(maps) + 1

\* a plausible slip: ctx gets a state map of its own
CtxStateOwn(state, maps) == Len(maps) + 2

\* state: middlewareCtx.state of ctx: the same map
CtxState(state, maps) == state

\* the map a party reads: a middleware handler reads middlewareCtx.state,
\* the terminal handler and the error handler read the state of ctx
StateOf(r, thunk) == IF thunk.kind = "mw" THEN mwState[r] ELSE ctxState[r]

\* maps grown so that id is one of them
Allocate(maps, id) ==
    [i \in 1..Max(Len(maps), id) |-> IF i <= Len(maps) THEN maps[i] ELSE {}]

StateInit ==
    /\ heap = <<>>
    /\ mwState = [r \in Reqs |-> 0]
    /\ ctxState = [r \in Reqs |-> 0]
    /\ wrote = [r \in Reqs |-> {}]
    /\ seen = [r \in Reqs |-> <<>>]

\* What a step of request r by the chain does to the state maps: none but
\* the step that builds middlewareCtx and ctx, which creates the map. A
\* party that the step starts finds the map as it is then.
WithState(r) ==
    /\ IF pc[r] = "idle" /\ pc'[r] = "chain"
       THEN LET state == NewState(heap)
                own == CtxState(state, heap)
            IN /\ heap' = Allocate(Allocate(heap, state), own)
               /\ mwState' = [mwState EXCEPT ![r] = state]
               /\ ctxState' = [ctxState EXCEPT ![r] = own]
       ELSE UNCHANGED <<heap, mwState, ctxState>>
    /\ seen' = [seen EXCEPT ![r] =
           IF invoked'[r] # invoked[r]
           THEN Append(@, [by |-> Last(invoked'[r]),
                           state |-> heap'[IF Last(invoked'[r]).kind = "mw"
                                           THEN mwState'[r]
                                           ELSE ctxState'[r]],
                           wrote |-> wrote[r]])
           ELSE @]
    /\ UNCHANGED wrote

\* a plausible slip: the state map is middlewareCtx itself, and a write to
\* it goes over the destination field
MwWriteOver(r) ==
    /\ MwRunning(r)
    /\ Top(r).calls = 0
    /\ <<r, Top(r).thunk>> \notin wrote[r]
    /\ heap' = [heap EXCEPT ![StateOf(r, Top(r).thunk)] =
                   @ \cup {<<r, Top(r).thunk>>}]
    /\ wrote' = [wrote EXCEPT ![r] = @ \cup {<<r, Top(r).thunk>>}]
    /\ destination' = [destination EXCEPT ![r] = "route"]
    /\ UNCHANGED <<mwState, ctxState, seen, pc, url, selected, resolved,
                   handlers, stack, ctxError, result, invoked, shortCircuit,
                   finalThrew, caught, escaped>>

\* a middleware handler writes to ctx.state before it calls next()
MwWrite(r) ==
    /\ MwRunning(r)
    /\ Top(r).calls = 0
    /\ <<r, Top(r).thunk>> \notin wrote[r]
    /\ heap' = [heap EXCEPT ![StateOf(r, Top(r).thunk)] =
                   @ \cup {<<r, Top(r).thunk>>}]
    /\ wrote' = [wrote EXCEPT ![r] = @ \cup {<<r, Top(r).thunk>>}]
    /\ UNCHANGED <<mwState, ctxState, seen, reqVars>>

\* the table and the requests the state maps are followed on
StateTable ==
    << [pathname |-> M_root, handler |-> [array |-> FALSE, fns |-> <<Fn(1, 1)>>]],
       [pathname |-> M_admin, handler |-> [array |-> FALSE, fns |-> <<Fn(2, 1)>>]] >>

StateTablesInit ==
    /\ routes = RouteTable
    /\ middlewares = StateTable
    /\ pages = DefaultPages

-----------------------------------------------------------------------------
(* History of the chain: the calls of next() and middlewareCtx.destination *)

HistInit ==
    /\ nextCalls = [r \in Reqs |-> 0]
    /\ calledNext = [r \in Reqs |-> {}]
    /\ observed = [r \in Reqs |-> <<>>]
    /\ written = [r \in Reqs |-> <<>>]

\* the step is the top-level handler entering #composeMiddlewares
Composes(r) == pc[r] = "idle" /\ pc'[r] = "chain"

\* the step is a call of next() by the running middleware handler
CallsNext(r) ==
    /\ stack[r] # <<>>
    /\ Len(stack'[r]) >= Len(stack[r])
    /\ stack'[r][Len(stack[r])].calls = Top(r).calls + 1

\* What a step of request r adds to the history: the next() of line 234 and
\* the next() of a middleware handler, the assignment of line 233, and the
\* value of middlewareCtx.destination a thunk is started with.
WithNextCalls(r) ==
    /\ nextCalls' = [nextCalls EXCEPT ![r] =
           IF Composes(r) \/ CallsNext(r) THEN @ + 1 ELSE @]
    /\ calledNext' = [calledNext EXCEPT ![r] =
           IF CallsNext(r) THEN @ \cup {Top(r).thunk} ELSE @]

WithDestination(r) ==
    /\ observed' = [observed EXCEPT ![r] =
           IF Len(invoked'[r]) > Len(invoked[r])
              /\ Last(invoked'[r]).kind \in {"mw", "final"}
           THEN Append(@, [thunk |-> Last(invoked'[r]),
                           destination |-> destination'[r]])
           ELSE @]
    /\ written' = [written EXCEPT ![r] =
           IF Composes(r) \/ destination'[r] # destination[r]
           THEN Append(@, destination'[r])
           ELSE @]

WithHistory(r) == WithNextCalls(r) /\ WithDestination(r)

-----------------------------------------------------------------------------
(* Specifications                                                          *)

vars ==
    <<pathVars, sortVars, tableVars, reqVars, renderVars, manifestVars,
      stateVars, gResp, histVars>>

\* one request through the handler
Init ==
    /\ TablesInit /\ ReqInit /\ PathIdle /\ SortIdle /\ RenderIdle
    /\ ManifestIdle /\ StateInit /\ RespondInit /\ HistInit
Rest ==
    /\ WithDestination("r1")
    /\ TablesRead
    /\ UNCHANGED <<pathVars, sortVars, renderVars, manifestVars, stateVars,
                   gResp, nextCalls, calledNext>>
Next ==
    \/ \E u \in Urls : Handler("r1", u) /\ Rest
    \/ MwCallNext("r1") /\ Rest
    \/ MwReturn("r1") /\ Rest
    \/ MwPass("r1") /\ Rest
    \/ \E async \in BOOLEAN : MwThrow("r1", async) /\ Rest
    \/ MwCatch("r1") /\ Rest
    \/ \E async \in BOOLEAN : MwRethrow("r1", async) /\ Rest
    \/ FinalReturn("r1") /\ Rest
    \/ \E sync \in BOOLEAN : FinalThrow("r1", sync) /\ Rest
    \/ ErrorHandlerReturn("r1") /\ Rest
    \/ ErrorHandlerThrow("r1") /\ Rest
Spec == Init /\ [][Next]_vars

\* one request through the handler, the calls of next() recorded
InitQueue ==
    /\ TablesInit /\ ReqInit /\ PathIdle /\ SortIdle /\ RenderIdle
    /\ ManifestIdle /\ StateInit /\ RespondInit /\ HistInit
RestQueue ==
    /\ WithHistory("r1")
    /\ TablesRead
    /\ UNCHANGED <<pathVars, sortVars, renderVars, manifestVars, stateVars,
                   gResp>>
QueueNext ==
    \/ \E u \in Urls : Handler("r1", u) /\ RestQueue
    \/ MwCallNext("r1") /\ RestQueue
    \/ MwReturn("r1") /\ RestQueue
    \/ MwPass("r1") /\ RestQueue
    \/ \E async \in BOOLEAN : MwThrow("r1", async) /\ RestQueue
    \/ MwCatch("r1") /\ RestQueue
    \/ \E async \in BOOLEAN : MwRethrow("r1", async) /\ RestQueue
    \/ FinalReturn("r1") /\ RestQueue
    \/ \E sync \in BOOLEAN : FinalThrow("r1", sync) /\ RestQueue
    \/ ErrorHandlerReturn("r1") /\ RestQueue
    \/ ErrorHandlerThrow("r1") /\ RestQueue
SpecQueue == InitQueue /\ [][QueueNext]_vars

\* one request through the handler, over the table of two middlewares; the
\* runtime runs every continuation that is ready, and a handler that was
\* started ends: a step that can be taken is taken
InitLive ==
    /\ StateTablesInit /\ ReqInit /\ PathIdle /\ SortIdle /\ RenderIdle
    /\ ManifestIdle /\ StateInit /\ RespondInit /\ HistInit
SpecLive == InitLive /\ [][Next]_vars /\ WF_vars(Next)

\* internalRender on the calls of RenderInit
RestRender ==
    UNCHANGED <<pathVars, sortVars, tableVars, reqVars, manifestVars,
                stateVars, histVars>>
RenderNext ==
    \/ InternalRender /\ UNCHANGED gResp /\ RestRender
    \/ RenderPage /\ UNCHANGED gResp /\ RestRender
    \/ PushModuleScript /\ UNCHANGED gResp /\ RestRender
    \/ CallTemplate /\ UNCHANGED gResp /\ RestRender
    \/ \E dev \in BOOLEAN, status \in PageStatus, options \in RenderOptions :
          Respond(dev, status, options) /\ RestRender
InitRender ==
    /\ RenderInit /\ PathIdle /\ SortIdle /\ TablesIdle /\ ReqInit /\ ManifestIdle
    /\ StateInit /\ RespondInit /\ HistInit
SpecRender == InitRender /\ [][RenderNext]_vars

\* calls of internalRender, one after the other, on the calls of HookInit
HookNext ==
    \/ InternalRender /\ UNCHANGED gResp /\ RestRender
    \/ RenderPage /\ UNCHANGED gResp /\ RestRender
    \/ PushModuleScript /\ UNCHANGED gResp /\ RestRender
    \/ CallTemplate /\ UNCHANGED gResp /\ RestRender
    \/ RenderAgain /\ UNCHANGED gResp /\ RestRender
InitHook ==
    /\ HookInit /\ PathIdle /\ SortIdle /\ TablesIdle /\ ReqInit /\ ManifestIdle
    /\ StateInit /\ RespondInit /\ HistInit
SpecHook == InitHook /\ [][HookNext]_vars

\* one request whose route or not-found handler returns ctx.render(): the
\* page is rendered while the terminal thunk runs
RestPage ==
    /\ WithHistory("r1")
    /\ TablesRead
    /\ UNCHANGED <<pathVars, sortVars, manifestVars, stateVars, gResp>>
Rendering ==
    /\ FinalRunning("r1")
    /\ UNCHANGED reqVars
    /\ RestPage
PageNext ==
    \/ \E u \in Urls : Handler("r1", u) /\ UNCHANGED renderVars /\ RestPage
    \/ MwCallNext("r1") /\ UNCHANGED renderVars /\ RestPage
    \/ MwReturn("r1") /\ UNCHANGED renderVars /\ RestPage
    \/ MwPass("r1") /\ UNCHANGED renderVars /\ RestPage
    \/ MwCatch("r1") /\ UNCHANGED renderVars /\ RestPage
    \/ \E async \in BOOLEAN :
          MwRethrow("r1", async) /\ UNCHANGED renderVars /\ RestPage
    \/ InternalRender /\ Rendering
    \/ RenderPage /\ Rendering
    \/ CallTemplate /\ Rendering
    \/ FinalReturnsRender("r1") /\ UNCHANGED renderVars /\ RestPage
    \/ ErrorHandlerReturn("r1") /\ UNCHANGED renderVars /\ RestPage
    \/ ErrorHandlerThrow("r1") /\ UNCHANGED renderVars /\ RestPage
InitPage ==
    /\ StateTablesInit /\ ReqInit /\ PageInit /\ PathIdle /\ SortIdle
    /\ ManifestIdle /\ StateInit /\ RespondInit /\ HistInit
SpecPage == InitPage /\ [][PageNext]_vars

\* the render function of one page called by several requests, and the
\* response of one of the calls
ImportsNext ==
    \/ InternalRender /\ UNCHANGED gResp /\ RestRender
    \/ RenderPage /\ UNCHANGED gResp /\ RestRender
    \/ CallTemplate /\ UNCHANGED gResp /\ RestRender
    \/ RenderAgain /\ UNCHANGED gResp /\ RestRender
    \/ \E dev \in BOOLEAN : Respond(dev, OK, Nothing) /\ RestRender
InitImports ==
    /\ ImportsInit /\ PathIdle /\ SortIdle /\ TablesIdle /\ ReqInit
    /\ ManifestIdle /\ StateInit /\ RespondInit /\ HistInit
SpecImports == InitImports /\ [][ImportsNext]_vars

\* pathToPathname on the paths of PathInit
RestPath ==
    UNCHANGED <<sortVars, tableVars, reqVars, renderVars, manifestVars,
                stateVars, gResp, histVars>>
PathNext == CallPathToPathname /\ RestPath
InitPath ==
    /\ PathInit /\ SortIdle /\ TablesIdle /\ ReqInit /\ RenderIdle /\ ManifestIdle
    /\ StateInit /\ RespondInit /\ HistInit
SpecPath == InitPath /\ [][PathNext]_vars

\* sortRoutes on the lists of SortInit
RestSort ==
    UNCHANGED <<pathVars, tableVars, reqVars, renderVars, manifestVars,
                stateVars, gResp, histVars>>
SortNext ==
    \/ CallSortRoutes /\ RestSort
    \/ CallSortRoutesAgain /\ RestSort
InitSort ==
    /\ SortInit /\ PathIdle /\ TablesIdle /\ ReqInit /\ RenderIdle /\ ManifestIdle
    /\ StateInit /\ RespondInit /\ HistInit
SpecSort == InitSort /\ [][SortNext]_vars

\* fromManifest on the modules of ManifestInit, then one request
RestManifest ==
    UNCHANGED <<pathVars, sortVars, tableVars, reqVars, renderVars,
                stateVars, gResp, histVars>>
ManifestNext ==
    \/ FromManifest /\ RestManifest
    \/ \E method \in Methods : CallHandler(method) /\ RestManifest
InitManifest ==
    /\ ManifestInit /\ PathIdle /\ SortIdle /\ TablesIdle /\ ReqInit /\ RenderIdle
    /\ StateInit /\ RespondInit /\ HistInit
SpecManifest == InitManifest /\ [][ManifestNext]_vars

\* two requests in flight on one handler, their steps interleaved
RestState ==
    /\ TablesRead
    /\ UNCHANGED <<pathVars, sortVars, renderVars, manifestVars, gResp,
                   histVars>>
StateNext ==
    \/ \E r \in Reqs, u \in Urls : Handler(r, u) /\ WithState(r) /\ RestState
    \/ \E r \in Reqs : MwWrite(r) /\ RestState
    \/ \E r \in Reqs : MwCallNext(r) /\ WithState(r) /\ RestState
    \/ \E r \in Reqs : MwReturn(r) /\ WithState(r) /\ RestState
    \/ \E r \in Reqs : MwPass(r) /\ WithState(r) /\ RestState
    \/ \E r \in Reqs, async \in BOOLEAN :
          MwThrow(r, async) /\ WithState(r) /\ RestState
    \/ \E r \in Reqs : FinalReturn(r) /\ WithState(r) /\ RestState
    \/ \E r \in Reqs, sync \in BOOLEAN :
          FinalThrow(r, sync) /\ WithState(r) /\ RestState
    \/ \E r \in Reqs : ErrorHandlerReturn(r) /\ WithState(r) /\ RestState
InitState ==
    /\ StateTablesInit /\ ReqInit /\ StateInit /\ PathIdle /\ SortIdle
    /\ RenderIdle /\ ManifestIdle /\ RespondInit /\ HistInit
SpecState == InitState /\ [][StateNext]_vars

-----------------------------------------------------------------------------
(* Properties of pathToPathname                                            *)

Infixes(s) == { SubSeq(s, i, j) : i \in 1..(Len(s) + 1), j \in 0..Len(s) }

IsCatchAllOf(seg, name) == seg = <<"[", ".", ".", ".">> \o name \o <<"]">>
IsNamedOf(seg, name) == seg = <<"[">> \o name \o <<"]">>

ExpectedPart(seg) ==
    IF \E name \in Infixes(seg) : IsCatchAllOf(seg, name)
    THEN <<":">> \o (CHOOSE name \in Infixes(seg) : IsCatchAllOf(seg, name)) \o <<"*">>
    ELSE IF \E name \in Infixes(seg) : IsNamedOf(seg, name)
    THEN <<":">> \o (CHOOSE name \in Infixes(seg) : IsNamedOf(seg, name))
    ELSE seg

ExpectedPattern(segs) ==
    LET kept == IF Last(segs) = INDEX THEN Front(segs) ELSE segs
    IN <<"/">> \o Join([i \in 1..Len(kept) |-> ExpectedPart(kept[i])])

S_blog == <<"b", "l", "o", "g">>
S_id == <<"[", "i", "d", "]">>
S_slug == <<"[", ".", ".", ".", "s", "l", "u", "g", "]">>

\* C8: pathToPathname returns "/" followed by the translated segments joined
\* with "/": only a final "index" segment is dropped, "[...name]" becomes
\* ":name*", "[name]" becomes ":name", any other segment is copied;
\* "blog/[id]/index" gives "/blog/:id" and "[...slug]" gives "/:slug*".
C8_PathToPathname ==
    pathOut # Nothing =>
        /\ The(pathOut) = ExpectedPattern(pathSegs)
        /\ pathSegs = <<S_blog, S_id, INDEX>> =>
              The(pathOut) = <<"/", "b", "l", "o", "g", "/", ":", "i", "d">>
        /\ pathSegs = <<S_slug>> =>
              The(pathOut) = <<"/", ":", "s", "l", "u", "g", "*">>

C8_Witness ==
    /\ pathSegs = <<S_slug, INDEX, INDEX>>
    /\ pathOut = Some(<<"/", ":", "s", "l", "u", "g", "*", "/", "i", "n", "d", "e", "x">>)

-----------------------------------------------------------------------------
(* Properties of sortRoutes                                                *)

Pathnames(list) == [i \in 1..Len(list) |-> list[i].pathname]

\* A and B have the same segments before depth d, A has a static segment at
\* depth d and B a parameter
StaticOutranks(A, B, d) ==
    LET partsA == Split(A.pathname)
        partsB == Split(B.pathname)
    IN /\ d <= Len(partsA)
       /\ d <= Len(partsB)
       /\ SubSeq(partsA, 1, d - 1) = SubSeq(partsB, 1, d - 1)
       /\ ~IsParam(partsA[d])
       /\ IsParam(partsB[d])

MaxDepth(list) ==
    LET lens == { Len(Split(list[i].pathname)) : i \in 1..Len(list) }
    IN IF lens = {} THEN 0 ELSE CHOOSE n \in lens : \A m \in lens : m <= n

\* C6: after sortRoutes, an entry whose segment at depth d is static is
\* placed before every entry whose segment at depth d is a parameter (the
\* two entries being the same up to depth d), whatever follows depth d.
C6_StaticBeforeParam ==
    sortOut # Nothing =>
        LET out == The(sortOut) IN
        \A i, j \in 1..Len(out) : \A d \in 1..MaxDepth(out) :
            StaticOutranks(out[i], out[j], d) => i < j

\* C7: sorting a sorted list changes nothing.
C7_SortIdempotent ==
    sortTwice # Nothing => The(sortTwice) = The(sortOut)

C7_Witness ==
    /\ sortTwice # Nothing
    /\ The(sortOut) # sortIn
    /\ Len(sortIn) = 3

IsThreeRoutes(list) ==
    /\ Len(list) = 3
    /\ { list[i].pathname : i \in 1..3 } = {P_root, P_id, P_path}

U_root == <<"/">>
U_42 == <<"/", "4", "2">>
U_a_b == <<"/", "a", "/", "b">>

MatchingRoutes(table, pathname) ==
    { i \in 1..Len(table) : PatternExec(table[i].pathname, pathname) }

\* C9: the routes "/", "/:id", "/:path*" are sorted to that order from any
\* input order, and the first matching route serves "/" by "/", "/42" by
\* "/:id" and "/a/b" by "/:path*".
C9_ThreeRoutes ==
    (sortOut # Nothing /\ IsThreeRoutes(sortIn)) =>
        LET out == The(sortOut) IN
        /\ Pathnames(out) = <<P_root, P_id, P_path>>
        /\ FirstMatch(out, U_root) = 1
        /\ FirstMatch(out, U_42) = 2
        /\ FirstMatch(out, U_a_b) = 3

C9_Witness ==
    /\ sortOut # Nothing
    /\ Pathnames(sortIn) = <<P_path, P_id, P_root>>
    /\ Pathnames(The(sortOut)) = <<P_root, P_id, P_path>>

-----------------------------------------------------------------------------
(* Properties of the middleware chain and of the top-level handler         *)

Range(q) == { q[i] : i \in 1..Len(q) }
Count(q, x) == Cardinality({ i \in 1..Len(q) : q[i] = x })

\* C1: once a middleware handler has returned a response without having
\* called next(), the terminal route/fallback handler is not invoked in
\* that request, whatever the other middlewares do, and the response of the
\* top-level handler is not one the terminal handler produced.
C1_ShortCircuit ==
    \A r \in Reqs :
        shortCircuit[r] # {} =>
            /\ FINAL \notin Range(invoked[r])
            /\ result[r].by # FINAL

\* C2: an error e thrown or rejected by the route handler (and not handled
\* by a middleware on its way up) reaches the error-page handler as
\* ctx.error, and the top-level handler answers with what the error handler
\* gives: it never rejects with e.
C2_RouteErrorToErrorPage ==
    \A r \in Reqs :
        (pc[r] = "done" /\ finalThrew[r] /\ ~caught[r]) =>
            /\ ctxError[r] = Some(FINAL)
            /\ result[r].by = ERRORPAGE

\* C3: an error that leaves a thunk of the chain, middleware or terminal,
\* is caught at the top of the chain and handed to the error-page handler;
\* the error handler is invoked at most once, outside the chain, and no
\* thunk is started after it.
C3_ErrorsCaughtAtTop ==
    \A r \in Reqs :
        /\ escaped[r] # Nothing =>
              /\ ctxError[r] = escaped[r]
              /\ ERRORPAGE \in Range(invoked[r])
        /\ Count(invoked[r], ERRORPAGE) <= 1
        /\ ERRORPAGE \in Range(invoked[r]) =>
              /\ Last(invoked[r]) = ERRORPAGE
              /\ stack[r] = <<>>

\* C4: a request whose path is longer than 1 and ends with "/" is answered
\* with a 307 response; no middleware is selected, no route is resolved and
\* no middleware, route, fallback or error handler is invoked for it.
C4_RedirectBeforeDispatch ==
    \A r \in Reqs :
        (pc[r] # "idle" /\ Len(url[r].pathname) > 1
                        /\ Last(url[r].pathname) = "/") =>
            /\ pc[r] = "done"
            /\ result[r].type = "response"
            /\ result[r].status = 307
            /\ selected[r] = Nothing
            /\ resolved[r] = Nothing
            /\ invoked[r] = <<>>
            /\ handlers[r] = <<>>
            /\ stack[r] = <<>>
            /\ ctxError[r] = Nothing

C4_Witness ==
    /\ pc["r1"] = "done"
    /\ url["r1"].pathname = <<"/", "f", "o", "o", "/">>
    /\ result["r1"].status = 307
    /\ middlewares # <<>>

Matching(pathname) ==
    { i \in 1..Len(middlewares) : PatternExec(middlewares[i].pathname, pathname) }

\* C5: selectMiddlewares returns exactly the entries of the table whose
\* pattern matches the URL, in table order; when none matches the result is
\* empty and the first thunk to run is the terminal handler.
C5_SelectMiddlewares ==
    \A r \in Reqs :
        selected[r] # Nothing =>
            LET mws == The(selected[r])
                M == Matching(url[r].pathname)
            IN /\ Len(mws) = Cardinality(M)
               /\ \E f \in [1..Len(mws) -> M] :
                     /\ \A k, l \in 1..Len(mws) : k < l => f[k] < f[l]
                     /\ \A k \in 1..Len(mws) :
                           mws[k] = [handler |-> middlewares[f[k]].handler]
               /\ M = {} => (mws = <<>> /\ invoked[r][1] = FINAL)

C5_Witness ==
    /\ Len(middlewares) = 2
    /\ middlewares[1].pathname = M_admin
    /\ middlewares[2].pathname = M_root
    /\ url["r1"].pathname = <<"/">>
    /\ selected["r1"] = Some(<<[handler |-> middlewares[2].handler]>>)
    /\ invoked["r1"][1] = Fn(2, 1)

-----------------------------------------------------------------------------
(* Properties of internalRender                                            *)

Distinct(seq) == \A i, j \in 1..Len(seq) : seq[i] = seq[j] => i = j

\* the render contract is met: the hook called the inner render function and
\* the page rendered something
Rendered == rOutlet # Nothing /\ ~Falsy(The(rOutlet))

\* C10: a finished internalRender call whose page rendered has returned
\* [html, csp]; the template was handed one module script per import, in
\* import order, with pairwise distinct nonces; with csp: true the returned
\* csp's script-src is exactly the nonce sources of those module scripts, in
\* the same order; with csp: false no csp is returned.
C10_ScriptSrcNonces ==
    (rPc = "done" /\ Rendered) =>
        /\ The(rResult).type = "returned"
        /\ LET scripts == The(rTemplate).moduleScripts
               csp == The(rResult).csp
           IN /\ Len(scripts) = Len(rOpts.imports)
              /\ \A k \in 1..Len(scripts) : scripts[k][1] = rOpts.imports[k]
              /\ Distinct([k \in 1..Len(scripts) |-> scripts[k][2]])
              /\ rOpts.csp =>
                    /\ csp # Nothing
                    /\ The(csp).directives.scriptSrc =
                          IF scripts = <<>> THEN Nothing
                          ELSE Some([k \in 1..Len(scripts) |->
                                        nonce(scripts[k][2])])
              /\ ~rOpts.csp => csp = Nothing

-----------------------------------------------------------------------------
(* Properties of fromManifest                                              *)

GetOnly(module) ==
    /\ module.handler = "object"
    /\ "GET" \in module.methods
    /\ "HEAD" \notin module.methods

\* C11: for a route whose handler is a method map with GET declared and
\* HEAD absent, a HEAD request calls the declared GET handler exactly once
\* and, when that answers, is answered with the status, statusText and
\* headers of that answer and a null body; a HEAD handler the module
\* declares stays the route's HEAD handler.
C11_HeadFromGet ==
    /\ (mResp # Nothing /\ mReq = Some("HEAD") /\ GetOnly(mModule)) =>
          /\ Count(mCalls, Declared("GET")) = 1
          /\ mGetResp # Nothing =>
                /\ The(mResp).type = "response"
                /\ The(mResp).response.status = The(mGetResp).status
                /\ The(mResp).response.statusText = The(mGetResp).statusText
                /\ The(mResp).response.headers = The(mGetResp).headers
                /\ The(mResp).response.body = "null"
    /\ (mRoute # Nothing /\ mModule.handler = "object"
                         /\ "HEAD" \in mModule.methods) =>
          The(mRoute)["HEAD"] = Declared("HEAD")

C11_Witness ==
    /\ mReq = Some("HEAD")
    /\ mModule.methods = {"GET", "POST"}
    /\ mGetResp # Nothing
    /\ The(mGetResp).status = 404
    /\ The(mGetResp).body = "stream"
    /\ The(mResp).response.status = 404

-----------------------------------------------------------------------------
(* Properties of the state maps                                            *)

\* C12: within a request, every later middleware handler, the terminal
\* handler and the error-page handler find in the state map, when they are
\* started, every write that a middleware handler of the request made
\* before it called next().
C12_StateVisible ==
    \A r \in Reqs : \A k \in 1..Len(seen[r]) :
        seen[r][k].wrote \subseteq seen[r][k].state

C12_Witness ==
    \E k, l \in 1..Len(seen["r1"]) :
        /\ seen["r1"][k].by = FINAL
        /\ seen["r1"][k].wrote = {<<"r1", Fn(1, 1)>>, <<"r1", Fn(2, 1)>>}
        /\ seen["r1"][l].by = ERRORPAGE
        /\ seen["r1"][l].state = seen["r1"][k].wrote

ChainInvoked(r) == SelectSeq(invoked[r], LAMBDA t : t # ERRORPAGE)

\* C13: of two requests in flight together, each has a state map of its
\* own, in which no party ever finds a write of the other request, and a
\* queue of its own: the thunks a request has started and the thunks left
\* in its queue are, in order, the thunks built for that request.
C13_RequestsIsolated ==
    \A r \in Reqs :
        /\ \A k \in 1..Len(seen[r]) : \A w \in seen[r][k].state : w[1] = r
        /\ \A q \in Reqs \ {r} :
              mwState[r] # 0 =>
                  /\ mwState[r] # mwState[q]
                  /\ ctxState[r] # ctxState[q]
                  /\ \A w \in heap[mwState[r]] \cup heap[ctxState[r]] : w[1] = r
        /\ selected[r] # Nothing =>
              ChainInvoked(r) \o handlers[r] =
                  Thunks(The(selected[r])) \o <<FINAL>>

C13_Witness ==
    /\ pc["r1"] = "chain"
    /\ pc["r2"] = "chain"
    /\ url["r1"].pathname = <<"/">>
    /\ url["r2"].pathname = <<"/", "a", "d", "m", "i", "n", "/", "x">>
    /\ wrote["r2"] = {<<"r2", Fn(1, 1)>>, <<"r2", Fn(2, 1)>>}
    /\ handlers["r2"] = <<FINAL>>
    /\ seen["r1"] # <<>>
    /\ Last(seen["r1"]).by = FINAL
    /\ Last(seen["r1"]).state = {<<"r1", Fn(1, 1)>>}

-----------------------------------------------------------------------------
(* Properties of dispatch                                                  *)

\* the request was answered by the redirect or by a response a middleware
\* handler made itself
AnsweredBefore(r) ==
    \/ result[r].by = REDIRECT
    \/ shortCircuit[r] # {}
    \/ result[r].type = "response" /\ result[r].by.kind = "mw"

\* C14: a finished request that was neither redirected nor answered by a
\* middleware was resolved to a route or to the not-found page, and exactly
\* one handler answered it: the error handler when an error left the chain,
\* and otherwise the resolved route or not-found handler, which ran once.
C14_ExactlyOneHandler ==
    \A r \in Reqs :
        (pc[r] = "done" /\ ~AnsweredBefore(r)) =>
            /\ resolved[r] # Nothing
            /\ destination[r] =
                  IF The(resolved[r]) = 0 THEN "notFound" ELSE "route"
            /\ Count(invoked[r], FINAL) <= 1
            /\ escaped[r] # Nothing =>
                  /\ ERRORPAGE \in Range(invoked[r])
                  /\ result[r].by = ERRORPAGE
            /\ escaped[r] = Nothing =>
                  /\ ERRORPAGE \notin Range(invoked[r])
                  /\ Count(invoked[r], FINAL) = 1
                  /\ result[r] = Resolved(FINAL, OK, <<>>)

\* C15: when the render hook returns without having called the inner
\* render function, internalRender fails with the error of the render
\* contract: it returns no [html, csp] and the template is not called.
C15_HookMustRender ==
    (~rOpts.hookCallsRender /\ rPc \notin {"idle", "hook"}) =>
        /\ rPc = "done"
        /\ rResult = Some([type |-> "error", error |-> "NotCalled",
                           csp |-> Nothing])
        /\ rTemplate = Nothing
        /\ rScripts = <<>>

C15_Witness ==
    /\ rPc = "done"
    /\ ~rOpts.hookCallsRender
    /\ rOpts.renders = "string"
    /\ rOpts.csp
    /\ rOpts.imports # <<>>
    /\ The(rResult).error = "NotCalled"

-----------------------------------------------------------------------------
(* Properties of the response of a render call                             *)

CSP == "content-security-policy"
CSP_REPORT_ONLY == "content-security-policy-report-only"

Contains(s, p) == \E i \in 1..(Len(s) - Len(p) + 1) : SubSeq(s, i, i + Len(p) - 1) = p

DEFAULT_DIRECTIVES ==
    <<"d", "e", "f", "a", "u", "l", "t", "-", "s", "r", "c", " ", "'",
      "n", "o", "n", "e", "'", ";", " ", "s", "t", "y", "l", "e", "-",
      "s", "r", "c", " ", "'", "u", "n", "s", "a", "f", "e", "-", "i",
      "n", "l", "i", "n", "e", "'">>
CONNECT_SRC == <<"c", "o", "n", "n", "e", "c", "t", "-", "s", "r", "c">>
CONNECT_SELF ==
    <<";", " ", "c", "o", "n", "n", "e", "c", "t", "-", "s", "r", "c",
      " ", "'", "s", "e", "l", "f", "'">>

\* the render call has ended and the page had rendered
RenderCalled == gResp # Nothing /\ Rendered

\* C16: a render call answers with a response whose status is
\* options.status when supplied and the status of the page kind otherwise,
\* and whose headers are those of the render step (content-type text/html,
\* the CSP header if any) overlaid with options.headers, a supplied header
\* winning.
C16_StatusAndHeaders ==
    RenderCalled =>
        /\ The(gResp).type = "response"
        /\ LET g == The(gResp)
               resp == The(g.response)
               supplied == IF g.options # Nothing
                              /\ The(g.options).headers # Nothing
                           THEN The(The(g.options).headers)
                           ELSE <<>>
           IN /\ resp.status =
                    IF g.options # Nothing /\ The(g.options).status # Nothing
                    THEN The(The(g.options).status) ELSE g.status
              /\ \A k \in DOMAIN supplied : resp.headers[k] = supplied[k]
              /\ "content-type" \in DOMAIN resp.headers
              /\ "content-type" \notin DOMAIN supplied =>
                    resp.headers["content-type"] = TEXT_HTML
              /\ DOMAIN resp.headers \ DOMAIN supplied
                    \subseteq {"content-type", CSP, CSP_REPORT_ONLY}

\* C17: the response of a render call has a CSP header exactly when the
\* page declares csp: true; the header then starts with default-src 'none'
\* and style-src 'unsafe-inline', and it is content-security-policy, or
\* content-security-policy-report-only when reportOnly is set, never both.
C17_CspHeader ==
    RenderCalled =>
        /\ The(gResp).type = "response"
        /\ LET headers == The(The(gResp).response).headers
               names == DOMAIN headers \cap {CSP, CSP_REPORT_ONLY}
           IN /\ names # {} <=> rOpts.csp
              /\ rOpts.csp =>
                    /\ names = {IF The(rCsp).reportOnly THEN CSP_REPORT_ONLY
                                                        ELSE CSP}
                    /\ \A k \in names :
                          StartsWith(headers[k], DEFAULT_DIRECTIVES)

\* C18: in development mode the CSP of the response of a render call ends
\* with connect-src 'self'; outside development mode it has no connect-src.
C18_ConnectSrcInDev ==
    (RenderCalled /\ rOpts.csp) =>
        /\ The(gResp).type = "response"
        /\ LET headers == The(The(gResp).response).headers
           IN /\ CSP \in DOMAIN headers
              /\ The(gResp).dev => EndsWith(headers[CSP], CONNECT_SELF)
              /\ ~The(gResp).dev => ~Contains(headers[CSP], CONNECT_SRC)


\* the first index at which two lists of segments differ, one of them
\* having no segment there included; 0 when there is none
FirstDiffering(pa, pb) ==
    LET D == { i \in 1..Max(Len(pa), Len(pb)) :
                 i > Len(pa) \/ i > Len(pb) \/ pa[i] # pb[i] }
    IN IF D = {} THEN 0 ELSE CHOOSE i \in D : \A j \in D : i <= j

WILDCARD == 0
NAMED == 1
STATIC == 2

Tier(seg) ==
    IF seg # <<>> /\ seg[1] = ":"
    THEN (IF seg[Len(seg)] = "*" THEN WILDCARD ELSE NAMED)
    ELSE STATIC

\* what the comparator is to return for two patterns
Expected(a, b) ==
    LET pa == Split(a.pathname)
        pb == Split(b.pathname)
        d == FirstDiffering(pa, pb)
    IN IF d = 0 THEN 0
       ELSE IF d > Len(pa) THEN -1
       ELSE IF d > Len(pb) THEN 1
       ELSE IF Tier(pa[d]) > Tier(pb[d]) THEN -1
       ELSE IF Tier(pa[d]) < Tier(pb[d]) THEN 1
       ELSE 0

\* C19: the comparator of sortRoutes returns -1, 0 or 1; it returns -1 when
\* A has no segment at the first differing index, 1 when B has none, and
\* else puts the higher tier (static over named over wildcard) first, 0 for
\* equal tiers; comparing B with A gives the negated result.
C19_Comparator ==
    (sortOut # Nothing /\ sortTwice = Nothing) =>
        \A i \in 1..Len(sortIn) : \A j \in i..Len(sortIn) :
            LET ab == compare(sortIn[i], sortIn[j])
                ba == compare(sortIn[j], sortIn[i])
            IN /\ ab \in {-1, 0, 1}
               /\ ab = Expected(sortIn[i], sortIn[j])
               /\ ba = Expected(sortIn[j], sortIn[i])
               /\ ab = 0 - ba

C19_Witness ==
    /\ sortOut # Nothing
    /\ \E i, j, k \in 1..Len(sortIn) :
          /\ sortIn[i].pathname = P_a
          /\ sortIn[j].pathname = P_a_d
          /\ sortIn[k].pathname = P_path
          /\ compare(sortIn[i], sortIn[j]) = -1
          /\ compare(sortIn[j], sortIn[i]) = 1
          /\ compare(sortIn[k], sortIn[i]) = 1

IndexOf(list, e) == CHOOSE i \in 1..Len(list) : list[i] = e

Permutation(in, out) ==
    /\ Len(out) = Len(in)
    /\ \A i \in 1..Len(in) :
          Cardinality({ k \in 1..Len(out) : out[k] = in[i] }) = 1

\* C20: sortRoutes keeps two entries the comparator returns 0 for in their
\* input order, and its output is a permutation of its input.
C20_StablePermutation ==
    sortOut # Nothing =>
        LET out == The(sortOut) IN
        /\ Permutation(sortIn, out)
        /\ \A i, j \in 1..Len(sortIn) :
              (i < j /\ compare(sortIn[i], sortIn[j]) = 0)
                  => IndexOf(out, sortIn[i]) < IndexOf(out, sortIn[j])

\* the permutation half of C20 alone
C20_Permutation ==
    sortOut # Nothing => Permutation(sortIn, The(sortOut))


-----------------------------------------------------------------------------
(* Properties of the thunk queue                                           *)

\* the handler functions of the table entries whose pattern matches, in
\* table order, an array of handlers in array order
RECURSIVE MatchedFns(_, _, _)
MatchedFns(table, pathname, i) ==
    IF i > Len(table) THEN <<>>
    ELSE (IF ~PatternExec(table[i].pathname, pathname) THEN <<>>
          ELSE IF table[i].handler.array THEN <<Fn(i, 1), Fn(i, 2)>>
          ELSE <<Fn(i, 1)>>) \o MatchedFns(table, pathname, i + 1)

ExpectedQueue(r) == MatchedFns(middlewares, url[r].pathname, 1) \o <<FINAL>>

\* C21 (the queue and its order): the thunks started so far and the thunks
\* still queued are together the handler functions of the matched
\* middlewares, in selection order, followed by the one terminal thunk; the
\* k-th thunk of the queue is started by the k-th call of next().
C21_QueueOrder ==
    \A r \in Reqs :
        selected[r] # Nothing =>
            /\ ChainInvoked(r) \o handlers[r] = ExpectedQueue(r)
            /\ Len(ChainInvoked(r)) = Min(nextCalls[r], Len(ExpectedQueue(r)))

\* C21: the queue is one thunk per handler function of the matched
\* middlewares, in order, then the terminal thunk; the k-th thunk is started
\* by the k-th next(), and the terminal handler is started only after every
\* matched middleware handler was started and has called next().
C21_ThunkQueue ==
    /\ C21_QueueOrder
    /\ \A r \in Reqs :
          FINAL \in Range(invoked[r]) =>
              \A k \in 1..(Len(ExpectedQueue(r)) - 1) :
                  /\ ExpectedQueue(r)[k] \in Range(invoked[r])
                  /\ ExpectedQueue(r)[k] \in calledNext[r]

C21_Witness ==
    /\ Len(middlewares) = 2
    /\ middlewares[1].handler.array
    /\ invoked["r1"] = <<Fn(1, 1), Fn(1, 2), Fn(2, 1), FINAL>>
    /\ nextCalls["r1"] = 4


-----------------------------------------------------------------------------
(* Properties of middlewareCtx.destination                                 *)

Classified(r) == IF The(resolved[r]) = 0 THEN "notFound" ELSE "route"

-----------------------------------------------------------------------------
(* Properties of the calls of internalRender                               *)

PastContexts == { rPast[k].ctx : k \in 1..Len(rPast) }

\* C23: a call of internalRender calls the render hook once, with an
\* InnerRenderContext made for this call: its id was never returned before,
\* its state map and its list of styles are empty, its lang is opts.lang or
\* else "en", and it is no context of an earlier call; the call ends with
\* one [html, csp] or with an error, never with a part of a result.
C23_FreshContext ==
    /\ rPc \in {"idle", "hook"} => rHooked = 0
    /\ rPc \in {"scripts", "done"} => rHooked = 1
    /\ \A k \in 1..Len(rPast) : rPast[k].hooked = 1
    /\ rCtx # Nothing =>
          /\ \A c \in PastContexts : c.ref # The(rCtx).ref /\ c.id # The(rCtx).id
          /\ \A k \in 1..Len(rPast) : \A j \in 1..Len(rPast) :
                k # j => rPast[k].ctx.ref # rPast[j].ctx.ref
    /\ rPc = "hook" =>
          /\ The(rCtx).state = {}
          /\ The(rCtx).styles = <<>>
          /\ The(rCtx).lang = IF rOpts.lang = Nothing THEN "en"
                                                      ELSE The(rOpts.lang)
    /\ rPc = "done" <=> rResult # Nothing
    /\ rResult # Nothing =>
          \/ /\ The(rResult).type = "returned"
             /\ The(rResult).csp = rCsp
             /\ rTemplate # Nothing
          \/ /\ The(rResult).type = "error"
             /\ The(rResult).csp = Nothing

C23_Witness ==
    /\ Len(rPast) = 1
    /\ rPast[1].ctx.styles # <<>>
    /\ rPast[1].ctx.state # {}
    /\ rOpts.hookCallsRender
    /\ rOpts.lang = Nothing
    /\ rPc = "done"
    /\ rHooked = 1
    /\ The(rCtx).ref = 2
    /\ rTemplate # Nothing

\* C24: the template gets the outlet of the page's render function, the
\* styles the render hook appended to ctx.styles, in order, the module
\* scripts with their nonces, and ctx.lang as the hook left it.
C24_TemplateOptions ==
    rTemplate # Nothing =>
        LET opts == The(rTemplate) IN
        /\ opts.outlet = rOutlet
        /\ opts.moduleScripts = rScripts
        /\ opts.lang = The(rCtx).lang
        /\ "styles" \in DOMAIN opts
        /\ "styles" \in DOMAIN opts => opts["styles"] = The(rCtx).styles

\* C24 without the styles: what the template does get
C24_TemplateOptionsButStyles ==
    rTemplate # Nothing =>
        LET opts == The(rTemplate) IN
        /\ opts.outlet = Some(rOpts.renders)
        /\ Len(opts.moduleScripts) = Len(rOpts.imports)
        /\ \A k \in 1..Len(rOpts.imports) :
              /\ opts.moduleScripts[k][1] = rOpts.imports[k]
              /\ opts.moduleScripts[k][2] \in { StripDashes(u) : u \in rUuids }
        /\ opts.lang = IF rOpts.hookLang # Nothing THEN The(rOpts.hookLang)
                       ELSE IF rOpts.lang # Nothing THEN The(rOpts.lang)
                       ELSE "en"


-----------------------------------------------------------------------------
(* Properties of the error path                                            *)

DoubleFault(r) == result[r] = Rejected(ERRORPAGE)

\* C25: when the error-page handler throws or rejects, the top-level
\* handler rejects with that failure; the error handler was invoked once,
\* nothing was started after it, and nothing is invoked for that request
\* from then on.
C25_DoubleFaultPropagates ==
    /\ [](\A r \in Reqs :
            /\ Count(invoked[r], ERRORPAGE) <= 1
            /\ (pc[r] = "error" \/ DoubleFault(r)) =>
                  /\ Last(invoked[r]) = ERRORPAGE
                  /\ stack[r] = <<>>
                  /\ ctxError[r] # Nothing /\ ctxError[r] # Some(ERRORPAGE)
            /\ DoubleFault(r) => pc[r] = "done")
    /\ [][\A r \in Reqs :
            /\ pc[r] = "error" =>
                  /\ invoked'[r] = invoked[r]
                  /\ pc'[r] \in {"error", "done"}
                  /\ result'[r] \in {result[r], Rejected(ERRORPAGE),
                                     Resolved(ERRORPAGE, InternalServerError,
                                              <<>>)}
            /\ DoubleFault(r) =>
                  /\ invoked'[r] = invoked[r]
                  /\ result'[r] = result[r]
                  /\ stack'[r] = stack[r]
                  /\ pc'[r] = pc[r]]_vars

C25_Witness ==
    /\ DoubleFault("r1")
    /\ ctxError["r1"] = Some(FINAL)
    /\ invoked["r1"] = <<Fn(1, 1), FINAL, ERRORPAGE>>


Violations == {"NotCalled", "NoComponent", "AsyncComponent"}

\* the page of the request breaks the render contract
BreaksContract ==
    \/ ~rOpts.hookCallsRender
    \/ rOpts.component \in {"none", "async"}

\* C26: when the page of a route or of the not-found fallback breaks the
\* render contract (the hook does not call render, no component, an async
\* component), the render call fails with that error; once the handler has
\* returned it (and no middleware has handled the rejection of next()), the
\* error-page handler is invoked with it as ctx.error and answers the
\* request: the terminal handler's response is never the answer.
C26_ContractViolation ==
    /\ (BreaksContract /\ rPc = "done") =>
          /\ The(rResult).type = "error"
          /\ The(rResult).error \in Violations
    /\ (BreaksContract /\ finalThrew["r1"] /\ ~caught["r1"]
                       /\ pc["r1"] \in {"error", "done"}) =>
          /\ ctxError["r1"] = Some(FINAL)
          /\ ERRORPAGE \in Range(invoked["r1"])
          /\ pc["r1"] = "done" => result["r1"].by = ERRORPAGE
    /\ (BreaksContract /\ FINAL \in Range(invoked["r1"]) /\ ~caught["r1"]
                       /\ pc["r1"] = "done") =>
          finalThrew["r1"]
    /\ BreaksContract => result["r1"] # Resolved(FINAL, OK, <<>>)

C26_Witness ==
    /\ rResult # Nothing
    /\ rOpts.component = "none"
    /\ rOpts.hookCallsRender
    /\ The(rResult).error = "NoComponent"
    /\ resolved["r1"] = Some(0)
    /\ invoked["r1"] = <<Fn(1, 1), Fn(2, 1), FINAL, ERRORPAGE>>
    /\ ctxError["r1"] = Some(FINAL)
    /\ result["r1"] = Resolved(ERRORPAGE, InternalServerError, <<>>)


-----------------------------------------------------------------------------
(* Properties of the redirect                                              *)

\* s is p without the slashes p ends with
Stripped(p, s) ==
    \E k \in 0..Len(p) :
        /\ s = SubSeq(p, 1, k)
        /\ k > 0 => p[k] # "/"
        /\ \A j \in (k + 1)..Len(p) : p[j] = "/"

\* C27: the Location of a redirect is the path of the request without the
\* slashes it ends with, followed by the query string as it came; a request
\* for "/" or for a path that does not end with "/" is not redirected.
C27_RedirectLocation ==
    \A r \in Reqs :
        /\ result[r].by = REDIRECT =>
              \E s \in { SubSeq(url[r].pathname, 1, k) :
                         k \in 0..Len(url[r].pathname) } :
                  /\ Stripped(url[r].pathname, s)
                  /\ result[r].location = s \o url[r].search
                  /\ result[r].status = TemporaryRedirect
        /\ (pc[r] # "idle" /\ (url[r].pathname = <<"/">>
                              \/ Last(url[r].pathname) # "/")) =>
              /\ result[r].by # REDIRECT
              /\ result[r].status # TemporaryRedirect

C27_Witness ==
    /\ url["r1"].pathname = <<"/", "f", "o", "o", "/", "/">>
    /\ result["r1"] = Resolved(REDIRECT, TemporaryRedirect,
                               <<"/", "f", "o", "o", "?", "q", "=", "/">>)


-----------------------------------------------------------------------------
(* Properties of the synthesized HEAD handler                              *)

Synthesized == mRoute # Nothing /\ IsObject(The(mRoute))
               /\ "HEAD" \in DOMAIN The(mRoute)
               /\ The(mRoute)["HEAD"].fn = "head"

-----------------------------------------------------------------------------
(* Properties of the routes fromManifest makes                             *)

\* the handler of the route: a GET that renders for a page with a component
\* whose module has no handler or a method map without GET; a single
\* function as it is
HandlerAsClaimed ==
    /\ (mModule.component /\ (mModule.handler = "undefined"
                             \/ (mModule.handler = "object"
                                 /\ "GET" \notin mModule.methods))) =>
          /\ IsObject(The(mRoute))
          /\ "GET" \in DOMAIN The(mRoute)
          /\ The(mRoute)["GET"] = RENDER
          /\ \A method \in mModule.methods :
                The(mRoute)[method] = Declared(method)
    /\ mModule.handler = "function" => The(mRoute) = FUNCTION
    /\ (mModule.handler = "object" /\ "GET" \in mModule.methods) =>
          The(mRoute)["GET"] = Declared("GET")

\* C29 as stated: the pathname of the route is config.routeOverride whenever
\* the module declares one.
C29_OverrideWhenDeclared ==
    mRoute # Nothing =>
        /\ mPathname = IF mModule.routeOverride # Nothing
                       THEN mModule.routeOverride
                       ELSE Some(ManifestPathname)
        /\ HandlerAsClaimed

\* C29 (amended): the pathname of the route is config.routeOverride when the
\* module declares one that is not the empty string, and else the pathname
\* of the manifest; a page with a component whose handler is absent or a
\* method map without GET gets a GET handler that renders with no data; a
\* handler that is a single function is left as it is.
C29_RouteTableEntry ==
    mRoute # Nothing =>
        /\ mPathname = IF mModule.routeOverride \notin {Nothing, Some(<<>>)}
                       THEN mModule.routeOverride
                       ELSE Some(ManifestPathname)
        /\ HandlerAsClaimed

C29_Witness ==
    /\ mRoute # Nothing
    /\ mModule.routeOverride = Some(P_b_c)
    /\ mPathname = Some(P_b_c)
    /\ mModule.component
    /\ mModule.handler = "object"
    /\ mModule.methods = {"POST"}
    /\ DOMAIN The(mRoute) = {"GET", "HEAD", "POST"}
    /\ mReq = Some("GET")
    /\ mCalls = <<RENDER>>


-----------------------------------------------------------------------------
(* Properties of the tables                                                *)

\* C30: the requests never change the tables: the routes, the middlewares
\* with their patterns and their order, the not-found page and the error
\* page are in every state what they were built as, whatever the requests
\* (answered, failed, redirected, two of them interleaved) have done.
C30_TablesReadOnly ==
    /\ [](routes = RouteTable /\ middlewares = StateTable
                              /\ pages = DefaultPages)
    /\ [][UNCHANGED tableVars]_vars

C30_Witness ==
    /\ pc["r1"] = "done" /\ pc["r2"] = "done"
    /\ result["r1"].by = ERRORPAGE
    /\ result["r2"].by = REDIRECT
    /\ routes = RouteTable /\ middlewares = StateTable /\ pages = DefaultPages

-----------------------------------------------------------------------------
(* Properties of the number of invocations                                 *)

\* C31: in one request every thunk of the chain is started at most once and
\* the thunks started are never more than the matched middleware handlers
\* and the one terminal thunk, however often next() is called; a next() on
\* the emptied queue starts nothing and fails with an error.
C31_InvokedOnce ==
    /\ [](\A r \in Reqs :
            /\ \A k \in 1..Len(invoked[r]) :
                  invoked[r][k] # ERRORPAGE =>
                      Count(ChainInvoked(r), invoked[r][k]) = 1
            /\ selected[r] # Nothing =>
                  Len(ChainInvoked(r)) <= Len(ExpectedQueue(r)))
    /\ [][\A r \in Reqs :
            (CallsNext(r) /\ handlers[r] = <<>>) =>
                /\ invoked'[r] = invoked[r]
                /\ Len(stack'[r]) = Len(stack[r])
                /\ Last(stack'[r]).got = Throw(NEXT, TRUE)]_vars

C31_Witness ==
    /\ MwRunning("r1")
    /\ Top("r1").calls = 2
    /\ Top("r1").got = Throw(NEXT, TRUE)
    /\ handlers["r1"] = <<>>
    /\ ChainInvoked("r1") = ExpectedQueue("r1")
    /\ Len(ChainInvoked("r1")) = 3

-----------------------------------------------------------------------------
(* Properties of the order of path matching and the chain                  *)

\* C32: path matching is done and ctx.destination is assigned before the
\* first middleware handler starts; from then on neither changes, whatever
\* the middlewares write to the state or answer themselves, so every handler
\* finds the final destination and the terminal thunk is the one queued
\* last for the route that was resolved.
C32_ResolvedBeforeChain ==
    /\ [](\A r \in Reqs :
            invoked[r] # <<>> =>
                /\ resolved[r] = Some(FirstMatch(routes, url[r].pathname))
                /\ destination[r] = Classified(r)
                /\ ChainInvoked(r) \o handlers[r] = ExpectedQueue(r))
    /\ [][\A r \in Reqs :
            resolved[r] # Nothing =>
                /\ resolved'[r] = resolved[r]
                /\ destination'[r] = destination[r]]_vars

C32_Witness ==
    /\ pc["r1"] = "done"
    /\ resolved["r1"] = Some(0)
    /\ destination["r1"] = "notFound"
    /\ wrote["r1"] = {<<"r1", Fn(1, 1)>>, <<"r1", Fn(2, 1)>>}
    /\ shortCircuit["r1"] = {Fn(2, 1)}
    /\ FINAL \notin { invoked["r1"][k] : k \in 1..Len(invoked["r1"]) }

-----------------------------------------------------------------------------
(* Properties of the render contract                                       *)

NotCalled == rResult # Nothing /\ The(rResult).error = "NotCalled"

\* C33: internalRender fails with "the render function was not called by
\* the render hook" only if the hook did not call the inner render function;
\* when the hook called it and the page's render function returned, an
\* empty string and no value included, the call has gone on to the template
\* and returned a result.
C33_NotCalledOnlyIfNotCalled ==
    rPc = "done" =>
        /\ NotCalled => ~rOpts.hookCallsRender
        /\ (rOpts.hookCallsRender /\ render(rOpts.component) = Nothing) =>
              /\ rTemplate # Nothing
              /\ The(rResult).type = "returned"

\* what the code does: the error is raised exactly when the outlet is
\* falsy, the hook not having called the render function or the page having
\* rendered the empty string or nothing
C33_NotCalledIfFalsy ==
    rPc = "done" =>
        LET thrown == rOpts.hookCallsRender
                      /\ render(rOpts.component) # Nothing
        IN NotCalled <=> /\ thrown => rOpts.hookCatches
                         /\ \/ ~rOpts.hookCallsRender
                            \/ thrown
                            \/ Falsy(rOpts.renders)

-----------------------------------------------------------------------------
(* Properties of the redirect target                                       *)

\* the path of a Location: what is before the query string
LocationPath(r) ==
    SubSeq(result[r].location, 1,
           Len(result[r].location) - Len(url[r].search))

\* the path is one the handler does not redirect
Settled(path) ==
    /\ path # <<>>
    /\ path[1] = "/"
    /\ Last(path) # "/"
    /\ ~NeedsRedirect(path)

AllSlashes(path) == \A k \in 1..Len(path) : path[k] = "/"

\* C34: the Location of every redirect, of a path made of slashes only
\* included, is a path that is not empty, begins with "/" and does not end
\* with "/": the request for it is not redirected again.
C34_RedirectNeverLoops ==
    \A r \in Reqs :
        result[r].by = REDIRECT => Settled(LocationPath(r))

\* what the code does: the Location is such a path unless the path of the
\* request is made of slashes only, and then its path is empty
C34_LoopsOnSlashesOnly ==
    \A r \in Reqs :
        result[r].by = REDIRECT =>
            IF AllSlashes(url[r].pathname)
            THEN LocationPath(r) = <<>>
            ELSE Settled(LocationPath(r))

-----------------------------------------------------------------------------
(* Properties of the comparator as an ordering                             *)

\* C35 (the ordering): for entries A, B, C of the list, when the comparator
\* does not put B before A nor C before B it does not put C before A; in
\* particular returning 0 is transitive.
C35_Transitive ==
    sortOut # Nothing =>
        \A i, j, k \in 1..Len(sortIn) :
            (compare(sortIn[i], sortIn[j]) <= 0
             /\ compare(sortIn[j], sortIn[k]) <= 0)
                => compare(sortIn[i], sortIn[k]) <= 0

\* C35: the comparator is such an ordering, and the sorted order of
\* distinct patterns is the same for the list given in the opposite order.
C35_ConsistentOrdering ==
    /\ C35_Transitive
    /\ (sortOut # Nothing /\ Distinct(Pathnames(sortIn))) =>
          Pathnames(The(sortOut)) = Pathnames(sortRoutes(Reverse(sortIn)))

-----------------------------------------------------------------------------
(* Properties of the list of module URLs                                   *)

\* the csp header of a response names no nonce: it is the default policy
NoNonceHeader(headers) ==
    \A k \in DOMAIN headers \ {"content-type"} :
        headers[k] \in { serializeCSPDirectives(defaultCsp.directives),
                         serializeCSPDirectives(
                             WithSelf(defaultCsp).directives) }

\* C36: the list of module URLs of a page is the one list genRender made;
\* no render of the page adds to it or takes from it, so it is empty in
\* every state: no call draws a nonce for a module, the csp of a call has
\* no script-src, the template is handed no module script, and a response
\* has no nonce in its csp header.
C36_ImportsStayEmpty ==
    /\ [](/\ rOpts.imports = <<>>
          /\ rScripts = <<>>
          /\ rCsp # Nothing => The(rCsp).directives.scriptSrc = Nothing
          /\ rTemplate # Nothing => The(rTemplate).moduleScripts = <<>>
          /\ Cardinality(rUuids) = Len(rPast) + (IF rCtx = Nothing THEN 0 ELSE 1)
          /\ (gResp # Nothing /\ The(gResp).response # Nothing) =>
                NoNonceHeader(The(The(gResp).response).headers))
    /\ [][rOpts'.imports = rOpts.imports]_vars

C36_Witness ==
    /\ rPast # <<>>
    /\ rPast[1].result.type = "error"
    /\ rOpts.csp
    /\ rOpts.imports = <<>>
    /\ rTemplate # Nothing
    /\ The(rTemplate).moduleScripts = <<>>
    /\ rCsp = Some(defaultCsp)
    /\ rPc = "done"
    /\ gResp # Nothing

-----------------------------------------------------------------------------
(* Properties of termination                                               *)

Settles(r) == pc[r] = "done" /\ result[r].type \in {"response", "rejected"}

\* C37: when every handler that was started ends, a request that was
\* received is answered or fails: the promise of the top-level handler
\* settles. A thunk that waits for next() waits for the thunk next() has
\* started, and a request in the chain has a running thunk.
C37_RequestSettles ==
    /\ [](\A r \in Reqs :
            /\ pc[r] = "chain" => stack[r] # <<>>
            /\ \A k \in 1..Len(stack[r]) :
                  /\ stack[r][k].thunk \in Range(invoked[r])
                  /\ stack[r][k].thunk.kind \in {"mw", "final"}
                  /\ k < Len(stack[r]) => stack[r][k].calls > 0)
    /\ \A r \in {"r1"} : (pc[r] \in {"chain", "error"}) ~> Settles(r)
    /\ <>Settles("r1")

C37_Witness ==
    /\ Settles("r1")
    /\ result["r1"] = Resolved(Fn(1, 1), OK, <<>>)
    /\ caught["r1"]
    /\ ctxError["r1"] = Nothing
    /\ invoked["r1"] = <<Fn(1, 1), Fn(2, 1), FINAL>>

-----------------------------------------------------------------------------
(* Properties of the manifest                                              *)

\* C38: fromManifest leaves the manifest as it was given: after the table
\* is built the handler a module exports has the methods it had before, no
\* GET and no HEAD added to it.
C38_ManifestUnchanged ==
    mRoute # Nothing =>
        /\ mExported = Exported(mModule)
        /\ IsObject(The(mRoute)) /\ mModule.handler = "object" =>
              DOMAIN The(mExported) = mModule.methods

\* what the code does: the method map a module exports is the handler of
\* the route, with the GET and the HEAD that fromManifest has put into it;
\* a module that exports a function or no handler is left as it was
C38_ExportedIsRouteHandler ==
    mRoute # Nothing =>
        IF mModule.handler = "object"
        THEN /\ mExported = mRoute
             /\ mModule.methods \subseteq DOMAIN The(mExported)
             /\ (mModule.component \/ "GET" \in mModule.methods) =>
                   {"GET", "HEAD"} \subseteq DOMAIN The(mExported)
        ELSE mExported = Exported(mModule)

=============================================================================
